---- MODULE Spec2Model ----
(***************************************************************************)
(* Ariel's Street Racing: the simulation loop of the browser game.         *)
(*                                                                         *)
(* Objects are record-valued variables named after the source objects:    *)
(*   game    Game            (src/game/entities/traffic.js, second half)   *)
(*   input   InputManager    (src/game/core/input.js)                      *)
(*   player  PlayerCar       (src/generate-pdf.js, second half)            *)
(*   cars    TrafficManager.cars (src/game/entities/traffic.js)            *)
(*   road    Environment.roadSegments (src/game/entities/environment.js)   *)
(*   buildings    Environment.buildings: the z of each building, 1/1000  *)
(*   streetLamps  Environment.streetLamps: the z of each lamp, 1/1000    *)
(*   hud     HUD screens     (src/game/ui/hud.js)                          *)
(*   playerZ PlayerCar.position.z, in 1/1000                               *)
(*   raf     gameLoop callbacks waiting in the display-refresh queue       *)
(*   now     performance.now(), in steps of Quantum ms                     *)
(*   phys    arguments and results of the PhysicsEngine queries            *)
(*   last    the handler that ran last and what it did                     *)
(*                                                                         *)
(* Numbers.  The source computes in IEEE doubles; the model computes in    *)
(* fixed point and rounds toward zero:                                     *)
(*   time          milliseconds                                            *)
(*   speed         1/SpeedScale mph                                        *)
(*   nitroAmount   1/NitroScale                                            *)
(*   damage        1/DamageScale                                           *)
(*   lengths of the physics queries: grid units, boxes kept in doubled     *)
(*   coordinates so that size/2 stays an integer.                          *)
(***************************************************************************)
EXTENDS Integers, Sequences, FiniteSets, TLC

VARIABLES game, input, hud, player, cars, road, buildings, streetLamps, playerZ,
          phys, raf, now, last

vars ==
  <<game, input, hud, player, cars, road, buildings, streetLamps, playerZ, phys,
    raf, now, last>>

\* ------------------------------------------------------------------------
\* Arithmetic helpers
\* ------------------------------------------------------------------------
Min(a, b) == IF a <= b THEN a ELSE b

Max(a, b) == IF a >= b THEN a ELSE b

Abs(a) == IF a < 0 THEN -a ELSE a

\* a / b rounded toward zero (b > 0)
Trunc(a, b) == IF a >= 0 THEN a \div b ELSE -((-a) \div b)

\* ------------------------------------------------------------------------
\* CONFIG and KEYS (src/unnamed/part_000)
\* ------------------------------------------------------------------------
ROAD_WIDTH == 40

LANE_COUNT == 4

LANE_WIDTH == 10

MAX_SPEED == 250

ACCELERATION == 80

BRAKE_FORCE == 120

\* NITRO_BOOST 1.5, in tenths
NITRO_BOOST_X10 == 15

\* CONFIG.PLAYER.TURN_SPEED, 1/1000 rad/s
TURN_SPEED_X1000 == 2500

\* CONFIG.PLAYER.DRIFT_FACTOR, percent
DRIFT_FACTOR_PCT == 95

\* seconds
NITRO_DURATION == 3

NITRO_RECHARGE == 5

TRAFFIC_COUNT == 8

TRAFFIC_MIN_SPEED == 40

TRAFFIC_MAX_SPEED == 70

SPAWN_DISTANCE == 300

DESPAWN_DISTANCE == 100

\* PHYSICS.FRICTION 0.98 and COLLISION_BOUNCE 0.3, in hundredths
FRICTION_PCT == 98

COLLISION_BOUNCE_PCT == 30

NEAR_MISS_DISTANCE == 3

NEAR_MISS_POINTS == 100

KEYS ==
  [ FORWARD  |-> {"ArrowUp", "KeyW"},
    BACKWARD |-> {"ArrowDown", "KeyS"},
    LEFT     |-> {"ArrowLeft", "KeyA"},
    RIGHT    |-> {"ArrowRight", "KeyD"},
    BRAKE    |-> {"Space"},
    NITRO    |-> {"ShiftLeft", "ShiftRight"},
    CAMERA   |-> {"KeyC"},
    PAUSE    |-> {"Escape", "KeyP"} ]

\* the keys the menu's own keydown handler starts the game on (HUD.showMenu)
MenuStartKeys == {"Enter", "Space"}

AllKeys ==
  KEYS.FORWARD \cup KEYS.BACKWARD \cup KEYS.LEFT \cup KEYS.RIGHT \cup KEYS.BRAKE
    \cup KEYS.NITRO \cup KEYS.CAMERA \cup KEYS.PAUSE \cup MenuStartKeys

\* ------------------------------------------------------------------------
\* Bounds and resolutions of the model
\* ------------------------------------------------------------------------
\* keys held down at once
MaxHeld == 2

\* the clock advances in steps of Quantum ms, up to MaxNow steps
Quantum == 100

MaxNow == 3

\* frame callbacks waiting in the display-refresh queue (guard of the model)
MaxRaf == 3

SpeedScale == 1

NitroScale == 60

DamageScale == 1

\* gameLoop caps the frame delta at 100 ms
DT_CAP_MS == 100

\* the frame deltas a tick is tried with: 0, the cap, and the clock's multiples
DtSet == {d \in 0..DT_CAP_MS : d % Quantum = 0} \cup {DT_CAP_MS}

\* ------------------------------------------------------------------------
\* JavaScript values: every object is a record with a type tag; reading a
\* property an object does not have gives undefined, and reading a property
\* of undefined raises a TypeError.
\* ------------------------------------------------------------------------
Null == [type |-> "null"]

Array(items) == [type |-> "array", items |-> items]

HasProp(obj, f) == f \in DOMAIN obj

Vec3(x, y, z) == [x |-> x, y |-> y, z |-> z]

SetMax(S) == CHOOSE x \in S : \A y \in S : y <= x

\* ------------------------------------------------------------------------
\* InputManager (src/game/core/input.js)
\* ------------------------------------------------------------------------
KeyStateInit ==
  [forward |-> FALSE, backward |-> FALSE, left |-> FALSE, right |-> FALSE,
   brake |-> FALSE, nitro |-> FALSE]

\* the flag assignments of _onKeyDown (lines 82-100)
onKeyDownFlags(ks, key) ==
  [ forward  |-> IF key \in KEYS.FORWARD THEN TRUE ELSE ks.forward,
    backward |-> IF key \in KEYS.BACKWARD THEN TRUE ELSE ks.backward,
    left     |-> IF key \in KEYS.LEFT THEN TRUE ELSE ks.left,
    right    |-> IF key \in KEYS.RIGHT THEN TRUE ELSE ks.right,
    brake    |-> IF key \in KEYS.BRAKE THEN TRUE ELSE ks.brake,
    nitro    |-> IF key \in KEYS.NITRO THEN TRUE ELSE ks.nitro ]

\* _onKeyUp (lines 118-140)
onKeyUpFlags(ks, key) ==
  [ forward  |-> IF key \in KEYS.FORWARD THEN FALSE ELSE ks.forward,
    backward |-> IF key \in KEYS.BACKWARD THEN FALSE ELSE ks.backward,
    left     |-> IF key \in KEYS.LEFT THEN FALSE ELSE ks.left,
    right    |-> IF key \in KEYS.RIGHT THEN FALSE ELSE ks.right,
    brake    |-> IF key \in KEYS.BRAKE THEN FALSE ELSE ks.brake,
    nitro    |-> IF key \in KEYS.NITRO THEN FALSE ELSE ks.nitro ]

\* getState (lines 286-295): a copy of keyState
getState(inp) ==
  [ forward |-> inp.keyState.forward, backward |-> inp.keyState.backward,
    left |-> inp.keyState.left, right |-> inp.keyState.right,
    brake |-> inp.keyState.brake, nitro |-> inp.keyState.nitro ]

InputStates ==
  [forward : BOOLEAN, backward : BOOLEAN, left : BOOLEAN, right : BOOLEAN,
   brake : BOOLEAN, nitro : BOOLEAN]

\* ------------------------------------------------------------------------
\* PlayerCar (src/generate-pdf.js, lines 49-543)
\* PlayerInit holds the fields of the car's arcade physics; where the
\* heading is not followed the position along the road is carried as
\* playerZ.  PlayerStart is the whole car, with its position (1/1000),
\* its heading (rotation.y) and its drift angle (both in 1/1000 rad).
\* ------------------------------------------------------------------------
PlayerInit ==
  [ speed |-> 0, rpm |-> 800, gear |-> 1, damage |-> 0,
    nitroAmount |-> NitroScale, isDrifting |-> FALSE,
    isNitroActive |-> FALSE, isBraking |-> FALSE ]

\* CONFIG.PLAYER.START_POSITION
START_POSITION == Vec3(0, 500, 0)

\* the car after createCar and reset (constructor lines 53-70, init line 100)
PlayerStart ==
  [ speed |-> 0, rpm |-> 800, gear |-> 1, damage |-> 0,
    nitroAmount |-> NitroScale, isDrifting |-> FALSE,
    isNitroActive |-> FALSE, isBraking |-> FALSE,
    position |-> START_POSITION, heading |-> 0, driftAngle |-> 0 ]

\* reset without line 501
reset_keepsDrift(p) ==
  [ f \in DOMAIN p |-> IF f = "driftAngle" THEN p[f] ELSE PlayerStart[f] ]

\* reset (lines 483-502): every field the record carries is assigned its
\* starting value
reset(p) == [ f \in DOMAIN p |-> PlayerStart[f] ]

\* addDamage without the clamp to [0, 100]
addDamage_unclamped(p, amount) == [p EXCEPT !.damage = p.damage + amount]

\* addDamage (lines 520-523); amount in 1/DamageScale
addDamage(p, amount) ==
  [p EXCEPT !.damage = Min(100 * DamageScale, Max(0, p.damage + amount))]

\* updateNitro without the test of the speed
updateNitro_anySpeed(p, dt, nitroPressed) ==
  IF nitroPressed /\ p.nitroAmount > 0
  THEN [ p EXCEPT !.isNitroActive = TRUE,
                  !.nitroAmount =
                    Max(0, p.nitroAmount - Trunc(NitroScale * dt, 1000 * NITRO_DURATION)) ]
  ELSE [ p EXCEPT !.isNitroActive = FALSE,
                  !.nitroAmount =
                    IF p.nitroAmount < NitroScale
                    THEN Min(NitroScale,
                             p.nitroAmount + Trunc(NitroScale * dt, 1000 * NITRO_RECHARGE))
                    ELSE p.nitroAmount ]

\* updateNitro (lines 407-423); dt in ms
updateNitro(p, dt, nitroPressed) ==
  IF nitroPressed /\ p.nitroAmount > 0 /\ p.speed > 10 * SpeedScale
  THEN [ p EXCEPT !.isNitroActive = TRUE,
                  !.nitroAmount =
                    Max(0, p.nitroAmount - Trunc(NitroScale * dt, 1000 * NITRO_DURATION)) ]
  ELSE [ p EXCEPT !.isNitroActive = FALSE,
                  !.nitroAmount =
                    IF p.nitroAmount < NitroScale
                    THEN Min(NitroScale,
                             p.nitroAmount + Trunc(NitroScale * dt, 1000 * NITRO_RECHARGE))
                    ELSE p.nitroAmount ]

\* lines 325-335: the acceleration the input selects, in mph/s
targetAcceleration(speed, in) ==
  LET a0 == 0
      a1 == IF in.forward THEN ACCELERATION ELSE a0
      a2 == IF in.backward THEN -BRAKE_FORCE ELSE a1
  IN IF in.brake /\ speed > 0 THEN -((BRAKE_FORCE * 3) \div 2) ELSE a2

\* lines 338-339: cfg.MAX_SPEED * speedMultiplier, in 1/SpeedScale mph
effectiveMaxSpeed(isNitroActive) ==
  IF isNitroActive
  THEN (MAX_SPEED * NITRO_BOOST_X10 * SpeedScale) \div 10
  ELSE MAX_SPEED * SpeedScale

\* line 346: speed *= FRICTION
applyFriction(speed) == Trunc(speed * FRICTION_PCT, 100)

\* the clamp without its upper limit
clampSpeed_noUpper(speed, maxSpeed) == Max(-20 * SpeedScale, speed)

\* line 350: Math.max(-20, Math.min(maxSpeed, speed))
clampSpeed(speed, maxSpeed) == Max(-20 * SpeedScale, Min(maxSpeed, speed))

\* line 427
gearSpeeds == <<0, 25, 50, 85, 130, 180, 250>>

\* updateGearAndRPM (lines 425-445); gearSpeeds[i] of the source is
\* gearSpeeds[i + 1] here
updateGearAndRPM(p) ==
  LET met == {i \in 0..6 : p.speed >= gearSpeeds[i + 1] * SpeedScale}
      gear == IF met = {} THEN p.gear ELSE Min(6, SetMax(met) + 1)
      gMin == gearSpeeds[gear]
      gMax == IF gearSpeeds[gear + 1] = 0 THEN MAX_SPEED ELSE gearSpeeds[gear + 1]
      span == (gMax - gMin) * SpeedScale
      rpm == 1000 + Trunc((p.speed - gMin * SpeedScale) * 7000, span)
  IN [p EXCEPT !.gear = gear, !.rpm = Max(800, Min(8500, rpm))]

\* update (lines 306-405), dt in ms, in: the record getState returns
PlayerUpdate(p, dt, in) ==
  LET p1 == [p EXCEPT !.isBraking = in.brake]
      p2 == updateNitro(p1, dt, in.nitro)
      acceleration == targetAcceleration(p2.speed, in)
      maxSpeed == effectiveMaxSpeed(p2.isNitroActive)
      idle == ~in.forward /\ ~in.backward
      s1 == p2.speed + Trunc(acceleration * SpeedScale * dt, 1000)
      s2 == IF idle THEN applyFriction(s1) ELSE s1
      s3 == clampSpeed(s2, maxSpeed)
      s4 == IF 2 * Abs(s3) < SpeedScale /\ idle THEN 0 ELSE s3
      steeringInput == (IF in.right THEN 1 ELSE 0) - (IF in.left THEN 1 ELSE 0)
      p3 == [ p2 EXCEPT !.speed = s4,
                        !.isDrifting =
                          in.brake /\ Abs(steeringInput) > 0 /\ s4 > 30 * SpeedScale ]
  IN updateGearAndRPM(p3)

\* onCollision (lines 504-518).  collision.relativeVelocity (mph) is used
\* when present and truthy, otherwise speed * 0.3; the damage is a fifth of
\* it.  collision.normal is absent on the results of checkCollisions.
onCollision(p, collision) ==
  LET rv == IF HasProp(collision, "relativeVelocity") THEN collision.relativeVelocity ELSE 0
      damageAmount ==
        IF rv # 0
        THEN Trunc(rv * 2 * DamageScale, 10)
        ELSE Trunc(p.speed * 3 * 2 * DamageScale, 100 * SpeedScale)
      p1 == addDamage(p, damageAmount)
  IN [p1 EXCEPT !.speed = Trunc(p1.speed * (100 - COLLISION_BOUNCE_PCT), 100)]

\* getCollider (lines 531-542); lengths in 1/1000
PlayerGetCollider(p, position) ==
  [ type |-> "box", position |-> position, rotation |-> 0,
    width |-> 2200, height |-> 1200, depth |-> 4500, mesh |-> "carGroup" ]

\* ------------------------------------------------------------------------
\* PhysicsEngine (src/game/core/physics.js)
\* A collider the queries can read is [type, position, size]; positions and
\* sizes are integers of one unit.  position - size/2 is kept doubled.
\* A query returns [threw, value]: threw is TRUE when it raised a TypeError.
\* ------------------------------------------------------------------------
Box(position, size) == [type |-> "box", position |-> position, size |-> size]

Returned(v) == [threw |-> FALSE, value |-> v]

TypeError == [threw |-> TRUE, value |-> <<>>]

\* lines 50-59 and 66-75, doubled
boxMin2(c) ==
  Vec3(2 * c.position.x - c.size.x, 2 * c.position.y - c.size.y,
       2 * c.position.z - c.size.z)

boxMax2(c) ==
  Vec3(2 * c.position.x + c.size.x, 2 * c.position.y + c.size.y,
       2 * c.position.z + c.size.z)

\* an intersection test that rejects boxes that only touch
aabbIntersect_strict(aMin, aMax, bMin, bMax) ==
  /\ aMin.x < bMax.x /\ aMax.x > bMin.x
  /\ aMin.y < bMax.y /\ aMax.y > bMin.y
  /\ aMin.z < bMax.z /\ aMax.z > bMin.z

\* _aabbIntersect (lines 164-170)
aabbIntersect(aMin, aMax, bMin, bMax) ==
  /\ aMin.x <= bMax.x /\ aMax.x >= bMin.x
  /\ aMin.y <= bMax.y /\ aMax.y >= bMin.y
  /\ aMin.z <= bMax.z /\ aMax.z >= bMin.z

\* an intensity that divides by the half extent
collisionIntensity_halfExtent(minOverlap2, maxSize) ==
  IF maxSize > 0
  THEN [num |-> Min(Max(minOverlap2, 0), maxSize), den |-> maxSize]
  ELSE [num |-> 0, den |-> 0]

\* lines 92-98: clamp(minOverlap / maxSize, 0, 1) as the fraction num/den;
\* minOverlap2 is doubled.  x/0 is +Infinity, -Infinity or NaN (den = 0).
collisionIntensity(minOverlap2, maxSize) ==
  IF maxSize > 0
  THEN [num |-> Min(Max(minOverlap2, 0), 2 * maxSize), den |-> 2 * maxSize]
  ELSE IF minOverlap2 > 0 THEN [num |-> 1, den |-> 1]
  ELSE IF minOverlap2 < 0 THEN [num |-> 0, den |-> 1]
  ELSE [num |-> 0, den |-> 0]

\* lines 79-104: the result pushed for an intersecting pair; point is the
\* overlap centre in quarter units
collisionResult(playerCollider, trafficCollider) ==
  LET pMin == boxMin2(playerCollider)
      pMax == boxMax2(playerCollider)
      tMin == boxMin2(trafficCollider)
      tMax == boxMax2(trafficCollider)
      overlapX == Min(pMax.x, tMax.x) - Max(pMin.x, tMin.x)
      overlapY == Min(pMax.y, tMax.y) - Max(pMin.y, tMin.y)
      overlapZ == Min(pMax.z, tMax.z) - Max(pMin.z, tMin.z)
      minOverlap == Min(overlapX, Min(overlapY, overlapZ))
      maxSize == Max(playerCollider.size.x,
                     Max(playerCollider.size.y, playerCollider.size.z))
  IN [ point |-> Vec3(Max(pMin.x, tMin.x) + Min(pMax.x, tMax.x),
                      Max(pMin.y, tMin.y) + Min(pMax.y, tMax.y),
                      Max(pMin.z, tMin.z) + Min(pMax.z, tMax.z)),
       intensity |-> collisionIntensity(minOverlap, maxSize),
       otherCollider |-> trafficCollider ]

\* the for loop of checkCollisions (lines 62-106) from index i on
RECURSIVE collisionLoop(_, _, _, _)
collisionLoop(playerCollider, items, i, collisions) ==
  IF i > Len(items) THEN Returned(collisions)
  ELSE IF items[i] = Null
       THEN collisionLoop(playerCollider, items, i + 1, collisions)
  ELSE IF ~HasProp(items[i], "size") THEN TypeError
  ELSE IF aabbIntersect(boxMin2(playerCollider), boxMax2(playerCollider),
                        boxMin2(items[i]), boxMax2(items[i]))
       THEN collisionLoop(playerCollider, items, i + 1,
                          Append(collisions, collisionResult(playerCollider, items[i])))
  ELSE collisionLoop(playerCollider, items, i + 1, collisions)

\* checkCollisions without the test of line 45
checkCollisions_unguarded(playerCollider, trafficColliders) ==
  IF playerCollider = Null \/ trafficColliders = Null THEN TypeError
  ELSE IF ~HasProp(playerCollider, "size") THEN TypeError
  ELSE collisionLoop(playerCollider, trafficColliders.items, 1, <<>>)

\* checkCollisions (lines 42-109)
checkCollisions(playerCollider, trafficColliders) ==
  IF playerCollider = Null \/ trafficColliders = Null
  THEN Returned(<<>>)
  ELSE IF Len(trafficColliders.items) = 0 THEN Returned(<<>>)
  ELSE IF ~HasProp(playerCollider, "size") THEN TypeError
  ELSE collisionLoop(playerCollider, trafficColliders.items, 1, <<>>)

\* Math.sign
Sign(a) == IF a > 0 THEN 1 ELSE IF a < 0 THEN -1 ELSE 0

\* getSeparationVector (lines 178-196).  The overlaps and the returned vector
\* are doubled.  The arguments are read without a null test.
getSeparationVector(playerCollider, otherCollider) ==
  IF playerCollider = Null \/ otherCollider = Null THEN TypeError
  ELSE IF ~HasProp(playerCollider, "size") \/ ~HasProp(otherCollider, "size")
       THEN TypeError
  ELSE LET dx == playerCollider.position.x - otherCollider.position.x
           dy == playerCollider.position.y - otherCollider.position.y
           dz == playerCollider.position.z - otherCollider.position.z
           overlapX == (playerCollider.size.x + otherCollider.size.x) - 2 * Abs(dx)
           overlapY == (playerCollider.size.y + otherCollider.size.y) - 2 * Abs(dy)
           overlapZ == (playerCollider.size.z + otherCollider.size.z) - 2 * Abs(dz)
       IN IF overlapX < overlapY /\ overlapX < overlapZ
          THEN Returned(Vec3(Sign(dx) * overlapX, 0, 0))
          ELSE IF overlapY < overlapZ
          THEN Returned(Vec3(0, Sign(dy) * overlapY, 0))
          ELSE Returned(Vec3(0, 0, Sign(dz) * overlapZ))

\* distance3D (lines 254-259), squared
distance3DSquared(a, b) ==
  (b.x - a.x) * (b.x - a.x) + (b.y - a.y) * (b.y - a.y) + (b.z - a.z) * (b.z - a.z)

\* a near-miss test that counts the outer boundary
isNearMiss_inclusive(playerCollider, trafficCollider, threshold) ==
  LET d2 == distance3DSquared(playerCollider.position, trafficCollider.position)
      W == (playerCollider.size.x + trafficCollider.size.x)
             + (playerCollider.size.z + trafficCollider.size.z)
      R == W + 4 * threshold
  IN 16 * d2 <= R * R /\ 1600 * d2 > 81 * W * W

\* lines 132-147 for one pair.  Sizes and threshold are not negative; with
\* W = 4 * minSafeDist and the squared distance d2,
\*   dist < minSafeDist + threshold   iff  16 d2 < (W + 4 threshold)^2
\*   dist > minSafeDist * 0.9         iff  1600 d2 > 81 W^2
isNearMiss(playerCollider, trafficCollider, threshold) ==
  LET d2 == distance3DSquared(playerCollider.position, trafficCollider.position)
      W == (playerCollider.size.x + trafficCollider.size.x)
             + (playerCollider.size.z + trafficCollider.size.z)
      R == W + 4 * threshold
  IN 16 * d2 < R * R /\ 1600 * d2 > 81 * W * W

\* the for loop of checkNearMisses (lines 128-150) from index i on
RECURSIVE nearMissLoop(_, _, _, _, _)
nearMissLoop(playerCollider, items, threshold, i, nearMissCount) ==
  IF i > Len(items) THEN Returned(nearMissCount)
  ELSE IF items[i] = Null
       THEN nearMissLoop(playerCollider, items, threshold, i + 1, nearMissCount)
  ELSE IF ~HasProp(playerCollider, "size") \/ ~HasProp(items[i], "size") THEN TypeError
  ELSE nearMissLoop(playerCollider, items, threshold, i + 1,
                    IF isNearMiss(playerCollider, items[i], threshold)
                    THEN nearMissCount + 1 ELSE nearMissCount)

\* checkNearMisses (lines 120-153); the caller passes the threshold, the
\* default this.nearMissDistance is the same CONFIG number
checkNearMisses(playerCollider, trafficColliders, threshold) ==
  IF playerCollider = Null \/ trafficColliders = Null
  THEN Returned(0)
  ELSE IF Len(trafficColliders.items) = 0 THEN Returned(0)
  ELSE nearMissLoop(playerCollider, trafficColliders.items, threshold, 1, 0)

\* ------------------------------------------------------------------------
\* TrafficCar and TrafficManager (src/game/entities/traffic.js, lines 8-330)
\* Positions in 1/1000, laneChangeProgress in 1/1000, speed in mph.
\* rnd holds the Math.random() samples of one handler call, in thousandths:
\* rnd.speed (randomSpeed), rnd.chance and rnd.dir (lane change),
\* rnd.lane and rnd.z (spawnCarAhead).
\* ------------------------------------------------------------------------
\* getLaneX (lines 116-122)
getLaneX(lane) ==
  (-(ROAD_WIDTH * 1000) \div 2) + ((LANE_WIDTH * 1000) \div 2) + lane * LANE_WIDTH * 1000

\* randomSpeed (lines 110-114)
randomSpeed(r) ==
  TRAFFIC_MIN_SPEED + Trunc(r * (TRAFFIC_MAX_SPEED - TRAFFIC_MIN_SPEED), 1000)

\* constructor (lines 9-24)
TrafficCar(lane, zPosition, rnd) ==
  [ lane |-> lane, speed |-> randomSpeed(rnd.speed), targetLane |-> lane,
    laneChangeProgress |-> 0, isBraking |-> FALSE,
    x |-> getLaneX(lane), z |-> zPosition,
    width |-> 2000, height |-> 1200, depth |-> 4000 ]

\* smoothstep (lines 172-175): t * t * (3 - 2t), t and result in 1/1000
smoothstep(t) == Trunc(t * t * (3000 - 2 * t), 1000000)

\* a lane change that does not test the new lane
tryLaneChange_unchecked(car, rnd) ==
  [car EXCEPT !.targetLane = car.lane + (IF rnd.dir > 500 THEN 1 ELSE -1),
              !.laneChangeProgress = 0]

\* tryLaneChange (lines 160-170)
tryLaneChange(car, rnd) ==
  LET direction == IF rnd.dir > 500 THEN 1 ELSE -1
      newLane == car.lane + direction
  IN IF newLane >= 0 /\ newLane < LANE_COUNT
     THEN [car EXCEPT !.targetLane = newLane, !.laneChangeProgress = 0]
     ELSE car

\* a brake light without the following-distance window
brakeLight_anyDistance(car, playerPosition, playerSpeed) ==
  /\ Abs(car.x - playerPosition.x) * 10 < LANE_WIDTH * 1000 * 8
  /\ car.z - playerPosition.z > 0
  /\ playerSpeed > car.speed * SpeedScale

\* lines 129-133: isBraking, for a car that has made its move along z; in
\* 1/1000, |dx| < LANE_WIDTH * 0.8 is 10 |dx| < 8 LANE_WIDTH * 1000
brakeLight(car, playerPosition, playerSpeed) ==
  LET distanceToPlayer == car.z - playerPosition.z
      inSameLane == Abs(car.x - playerPosition.x) * 10 < LANE_WIDTH * 1000 * 8
  IN /\ inSameLane
     /\ distanceToPlayer > 0
     /\ distanceToPlayer < 30000
     /\ playerSpeed > car.speed * SpeedScale

\* a lane change that ends only when the progress has passed 1
advanceLaneChange_late(car, dt) ==
  LET progress == car.laneChangeProgress + dt * 2
      done == progress > 1000
      lane == IF done THEN car.targetLane ELSE car.lane
      p2 == IF done THEN 0 ELSE progress
  IN [ car EXCEPT !.lane = lane, !.laneChangeProgress = p2,
                  !.x = getLaneX(lane)
                          + Trunc((getLaneX(car.targetLane) - getLaneX(lane)) * smoothstep(p2), 1000) ]

\* lines 139-152: the lane change in progress
advanceLaneChange(car, dt) ==
  LET progress == car.laneChangeProgress + dt * 2
      done == progress >= 1000
      lane == IF done THEN car.targetLane ELSE car.lane
      p2 == IF done THEN 0 ELSE progress
      currentX == getLaneX(lane)
      targetX == getLaneX(car.targetLane)
  IN [ car EXCEPT !.lane = lane, !.laneChangeProgress = p2,
                  !.x = currentX + Trunc((targetX - currentX) * smoothstep(p2), 1000) ]

\* lines 126-127: the move along z
moveForward(car, dt) == [car EXCEPT !.z = car.z + Trunc(car.speed * 447 * dt, 10000)]

\* an update that leaves x to the frames of the lane change before the last
TrafficCarUpdate_keepsX(car, dt, playerPosition, playerSpeed, rnd) ==
  LET c1 == [ moveForward(car, dt) EXCEPT
                !.isBraking = brakeLight(moveForward(car, dt), playerPosition, playerSpeed) ]
      c2 == advanceLaneChange(c1, dt)
  IN IF c1.targetLane # c1.lane
     THEN IF c2.lane # c1.lane THEN [c2 EXCEPT !.x = c1.x] ELSE c2
     ELSE IF rnd.chance < 5 THEN tryLaneChange(c1, rnd) ELSE c1

\* TrafficCar.update (lines 124-158); playerSpeed in 1/SpeedScale mph
TrafficCarUpdate(car, dt, playerPosition, playerSpeed, rnd) ==
  LET c1 == [ moveForward(car, dt) EXCEPT
                !.isBraking = brakeLight(moveForward(car, dt), playerPosition, playerSpeed) ]
  IN IF c1.targetLane # c1.lane
     THEN advanceLaneChange(c1, dt)
     ELSE IF rnd.chance < 5 THEN tryLaneChange(c1, rnd) ELSE c1

\* TrafficCar.getCollider (lines 177-187)
TrafficGetCollider(car) ==
  [ type |-> "box", position |-> Vec3(car.x, 500, car.z), rotation |-> 0,
    width |-> car.width, height |-> car.height, depth |-> car.depth,
    mesh |-> "mesh" ]

\* spawnInitialCars (lines 204-215) through spawnCar (lines 217-233)
spawnInitialCars(rnd) ==
  [ i \in 1..TRAFFIC_COUNT |->
      TrafficCar((i - 1) % LANE_COUNT,
                 Trunc((i - 1) * SPAWN_DISTANCE * 1000, TRAFFIC_COUNT) + 50000,
                 rnd) ]

\* TrafficManager.reset (lines 313-324)
TrafficReset(rnd) == spawnInitialCars(rnd)

\* spawnCarAhead (lines 264-286)
spawnCarAhead(cs, playerPosition, rnd) ==
  LET lane == Trunc(rnd.lane * LANE_COUNT, 1000)
      zPosition == playerPosition.z + SPAWN_DISTANCE * 1000 + rnd.z * 100
      tooClose == \E i \in 1..Len(cs) :
                    cs[i].lane = lane /\ Abs(cs[i].z - zPosition) < 15000
  IN IF ~tooClose
     THEN Append(cs, TrafficCar(lane, zPosition, rnd))
     ELSE Append(cs, TrafficCar((lane + 1) % LANE_COUNT, zPosition, rnd))

\* the while loop of TrafficManager.update (lines 259-261)
RECURSIVE refill(_, _, _)
refill(cs, playerPosition, rnd) ==
  IF Len(cs) < TRAFFIC_COUNT
  THEN refill(spawnCarAhead(cs, playerPosition, rnd), playerPosition, rnd)
  ELSE cs

\* a despawn test that removes nothing
despawn_none(updated, pz) == updated

\* lines 250-257: the cars further than DESPAWN_DISTANCE behind the player
\* are removed
despawn(updated, pz) ==
  SelectSeq(updated, LAMBDA car : ~(pz - car.z > DESPAWN_DISTANCE * 1000))

\* TrafficManager.update (lines 235-262)
TrafficUpdate(cs, dt, playerPosition, playerSpeed, rnd) ==
  refill(despawn([ i \in 1..Len(cs) |->
                     TrafficCarUpdate(cs[i], dt, playerPosition, playerSpeed, rnd) ],
                 playerPosition.z),
         playerPosition, rnd)

\* getColliders (lines 326-329)
getColliders(cs) == Array([i \in 1..Len(cs) |-> TrafficGetCollider(cs[i])])

\* ------------------------------------------------------------------------
\* Environment: road segments (src/game/entities/environment.js)
\* zPosition in 1/1000.  groupZ is group.position.z, meshZ the road mesh's
\* position inside the group.
\* ------------------------------------------------------------------------
roadSegmentLength == 200

roadSegmentCount == 12

\* createRoadSegment (lines 186-256)
createRoadSegment(zPosition) ==
  [ zPosition |-> zPosition, groupZ |-> 0,
    meshZ |-> zPosition + (roadSegmentLength * 1000) \div 2 ]

\* createRoad (lines 176-184)
createRoad ==
  [ i \in 1..roadSegmentCount |-> createRoadSegment((i - 1) * roadSegmentLength * 1000) ]

\* a relocation that is one segment short
recycleSegment_short(segment, totalLength) ==
  [ segment EXCEPT !.zPosition = segment.zPosition + totalLength - roadSegmentLength * 1000,
                   !.groupZ = segment.zPosition + totalLength - roadSegmentLength * 1000 ]

\* the relocation of one segment (lines 503-505)
recycleSegment(segment, totalLength) ==
  [ segment EXCEPT !.zPosition = segment.zPosition + totalLength,
                   !.groupZ = segment.zPosition + totalLength ]

\* updateRoadSegments (lines 495-515)
updateRoadSegments(segments, pz) ==
  LET totalLength == roadSegmentCount * roadSegmentLength * 1000
  IN [ i \in 1..Len(segments) |->
         IF segments[i].zPosition + roadSegmentLength * 1000 < pz - 100 * 1000
         THEN recycleSegment(segments[i], totalLength)
         ELSE segments[i] ]

\* CONFIG.ENVIRONMENT.BUILDING_COUNT
BUILDING_COUNT == 60

\* the step of createBuildings' loop along z (i * 25, lines 268 and 275)
buildingSpacing == 25

\* this.lampSpacing (line 25)
lampSpacing == 30

\* lampCount (line 369)
lampCount == 40

\* Math.random() * 10 of each createBuilding call, in 1/1000: none, and
\* the largest on every right-hand building
NoJitter == [k \in 1..(2 * BUILDING_COUNT) |-> 0]

BuildingJitters ==
  { NoJitter, [k \in 1..(2 * BUILDING_COUNT) |-> IF k % 2 = 0 THEN 9999 ELSE 0] }

\* createBuildings (lines 258-279): the left and the right building of
\* each i, in the order they are pushed
createBuildings(jitter) ==
  [ k \in 1..(2 * BUILDING_COUNT) |->
      ((k - 1) \div 2) * buildingSpacing * 1000 - 100 * 1000 + jitter[k] ]

\* createStreetLamps (lines 367-384): a left lamp for every i, and after
\* it a right lamp half a spacing further for every even i; the lamps of
\* i = 2m and 2m + 1 are the entries 3m + 1, 3m + 2 and 3m + 3
createStreetLamps ==
  [ k \in 1..((3 * lampCount) \div 2) |->
      LET m == (k - 1) \div 3
          r == (k - 1) % 3
      IN IF r = 0 THEN (2 * m) * lampSpacing * 1000 - 100 * 1000
         ELSE IF r = 1
              THEN (2 * m) * lampSpacing * 1000 - 100 * 1000 + (lampSpacing * 1000) \div 2
         ELSE (2 * m + 1) * lampSpacing * 1000 - 100 * 1000 ]

\* updateBuildings (lines 517-533): building.z and group.position.z
updateBuildings(bs, pz) ==
  LET recycleDistance == 150 * 1000
      spawnAhead == (roadSegmentLength * roadSegmentCount - 200) * 1000
  IN [ k \in 1..Len(bs) |->
         IF bs[k] < pz - recycleDistance
         THEN bs[k] + spawnAhead + recycleDistance
         ELSE bs[k] ]

\* updateStreetLamps (lines 535-545): lamp.z and group.position.z
updateStreetLamps(lamps, pz) ==
  LET recycleDistance == 100 * 1000
      totalLength == lampSpacing * 40 * 1000
  IN [ k \in 1..Len(lamps) |->
         IF lamps[k] < pz - recycleDistance
         THEN lamps[k] + totalLength
         ELSE lamps[k] ]

\* the displacement along z of one PlayerCar.update (lines 383-388):
\* direction.z * speed * 0.0447 * dt, dirZ = direction.z in 1/1000
playerMove(speed, dt, dirZ) ==
  Trunc(dirZ * Trunc(speed * 447 * dt, 10000 * SpeedScale), 1000)

\* Math.sin and Math.cos of an angle h in 1/1000 rad, in 1/1000: the power
\* series to h^7 and h^6, within 0.005 of the functions for |h| <= 1.6 rad
sin(h) ==
  LET h2 == Trunc(h * h, 1000)
      h3 == Trunc(h2 * h, 1000)
      h5 == Trunc(h3 * h2, 1000)
      h7 == Trunc(h5 * h2, 1000)
  IN h - Trunc(h3, 6) + Trunc(h5, 120) - Trunc(h7, 5040)

cos(h) ==
  LET h2 == Trunc(h * h, 1000)
      h4 == Trunc(h2 * h2, 1000)
      h6 == Trunc(h4 * h2, 1000)
  IN 1000 - Trunc(h2, 2) + Trunc(h4, 24) - Trunc(h6, 720)

\* the steering without the test of line 375
steerAndMove_turnsAtRest(p, dt, in) ==
  LET steeringInput == (IF in.right THEN 1 ELSE 0) - (IF in.left THEN 1 ELSE 0)
      maxSpeed == effectiveMaxSpeed(p.isNitroActive)
      turnRate == TURN_SPEED_X1000 - Trunc(TURN_SPEED_X1000 * Abs(p.speed), 2 * maxSpeed)
      driftAngle ==
        IF p.isDrifting
        THEN Trunc((p.driftAngle + steeringInput * dt * 2) * DRIFT_FACTOR_PCT, 100)
        ELSE Trunc(p.driftAngle * 9, 10)
      steerDirection == IF p.speed > 0 THEN 1 ELSE -1
      totalSteer == (steeringInput * turnRate + driftAngle) * steerDirection
      heading ==
        p.heading - Trunc(totalSteer * dt * Max(Abs(p.speed), SpeedScale),
                          1000 * 50 * SpeedScale)
      halfRoad == (ROAD_WIDTH * 1000) \div 2 - 1500
      x == p.position.x + playerMove(p.speed, dt, sin(heading))
      z == p.position.z + playerMove(p.speed, dt, cos(heading))
  IN [ p EXCEPT !.driftAngle = driftAngle,
                !.heading = heading,
                !.position = Vec3(Max(-halfRoad, Min(halfRoad, x)), p.position.y, z) ]

\* update, lines 357-395, on the whole car: p has the speed and the flags
\* of this call (PlayerUpdate); drift angle, heading, then the move along
\* the heading and the clamp of x to the road
steerAndMove(p, dt, in) ==
  LET steeringInput == (IF in.right THEN 1 ELSE 0) - (IF in.left THEN 1 ELSE 0)
      maxSpeed == effectiveMaxSpeed(p.isNitroActive)
      turnRate == TURN_SPEED_X1000 - Trunc(TURN_SPEED_X1000 * Abs(p.speed), 2 * maxSpeed)
      driftAngle ==
        IF p.isDrifting
        THEN Trunc((p.driftAngle + steeringInput * dt * 2) * DRIFT_FACTOR_PCT, 100)
        ELSE Trunc(p.driftAngle * 9, 10)
      steerDirection == IF p.speed > 0 THEN 1 ELSE -1
      totalSteer == (steeringInput * turnRate + driftAngle) * steerDirection
      heading ==
        IF p.speed # 0
        THEN p.heading - Trunc(totalSteer * dt * Abs(p.speed), 1000 * 50 * SpeedScale)
        ELSE p.heading
      halfRoad == (ROAD_WIDTH * 1000) \div 2 - 1500
      x == p.position.x + playerMove(p.speed, dt, sin(heading))
      z == p.position.z + playerMove(p.speed, dt, cos(heading))
  IN [ p EXCEPT !.driftAngle = driftAngle,
                !.heading = heading,
                !.position = Vec3(Max(-halfRoad, Min(halfRoad, x)), p.position.y, z) ]

\* ------------------------------------------------------------------------
\* HUD screens (src/game/ui/hud.js)
\* ------------------------------------------------------------------------
\* constructor and the create* methods (lines 8-14, 782, 818, 837)
HudInit ==
  [ isVisible |-> FALSE, menu |-> FALSE, menuKeyHandler |-> FALSE,
    pause |-> FALSE, gameover |-> FALSE ]

\* show (lines 984-991)
HudShow(h) == [h EXCEPT !.isVisible = TRUE]

\* hide (lines 993-1000)
HudHide(h) == [h EXCEPT !.isVisible = FALSE]

\* showMenu (lines 1002-1023)
HudShowMenu(h) == [h EXCEPT !.menu = TRUE, !.menuKeyHandler = TRUE]

\* hideMenu (lines 1025-1030)
HudHideMenu(h) == [h EXCEPT !.menu = FALSE, !.menuKeyHandler = FALSE]

\* showGameOver (lines 1040-1055)
HudShowGameOver(h) == HudHide([h EXCEPT !.gameover = TRUE])

\* hideGameOver (lines 1057-1059)
HudHideGameOver(h) == [h EXCEPT !.gameover = FALSE]

\* ------------------------------------------------------------------------
\* Game (src/game/entities/traffic.js, lines 349-605)
\* A handler maps a world to a world.  Besides the objects, a world records
\* what the handler did: calls (the steps of Game.update that were entered),
\* threw (an exception left the handler), ticks (passes of gameLoop beyond
\* its guard) and scheduled (requestAnimationFrame calls).
\* ------------------------------------------------------------------------
World ==
  [ game |-> game, input |-> input, hud |-> hud, player |-> player,
    cars |-> cars, road |-> road, buildings |-> buildings,
    streetLamps |-> streetLamps, playerZ |-> playerZ, raf |-> raf,
    calls |-> <<>>, threw |-> FALSE, ticks |-> 0, scheduled |-> 0 ]

\* constructor (lines 350-357)
GameInit ==
  [ isRunning |-> FALSE, isPaused |-> FALSE, lastTime |-> 0, deltaTime |-> 0,
    score |-> 0, gameState |-> "menu" ]

\* the Math.random() samples of one handler call, and direction.z
RndSet ==
  [ speed : {0, 999}, chance : {4, 5}, dir : {500, 501}, lane : {0}, z : {0},
    dirZ : {1000} ]

NoRnd == [speed |-> 0, chance |-> 5, dir |-> 500, lane |-> 0, z |-> 0, dirZ |-> 1000]

\* player.position (generate-pdf.js line 395); x and y stay at START_POSITION
playerPosition(pz) == Vec3(0, 500, pz)

\* the steps of Game.update in the order of lines 484-514
UpdateOrder ==
  << "player.update", "traffic.update", "checkCollisions", "checkNearMisses",
     "environment.update" >>

\* showMenu (lines 414-421)
showMenu(w) == [w EXCEPT !.game.gameState = "menu", !.hud = HudShowMenu(@)]

\* gameOver (lines 579-591)
gameOver(w) ==
  [ w EXCEPT !.game.gameState = "gameover", !.game.isRunning = FALSE,
             !.hud = HudShowGameOver(@) ]

\* collision.intensity * 10 (line 566), in 1/DamageScale
intensityDamage(intensity) == Trunc(10 * DamageScale * intensity.num, intensity.den)

\* the for loop of handleCollisions (lines 554-567) from index i on
RECURSIVE collidePlayer(_, _, _)
collidePlayer(p, collisions, i) ==
  IF i > Len(collisions) THEN p
  ELSE collidePlayer(addDamage(onCollision(p, collisions[i]),
                               intensityDamage(collisions[i].intensity)),
                     collisions, i + 1)

\* handleCollisions without the test of lines 570-572
handleCollisions_noGameOver(w, collisions) ==
  [w EXCEPT !.player = collidePlayer(w.player, collisions, 1)]

\* handleCollisions (lines 553-573)
handleCollisions(w, collisions) ==
  LET p == collidePlayer(w.player, collisions, 1)
      w1 == [w EXCEPT !.player = p]
  IN IF p.damage >= 100 * DamageScale THEN gameOver(w1) ELSE w1

\* update (lines 479-551) is the chain of its steps.  A step after one that
\* threw is not entered.  The calls after environment.update change only
\* particles, effects, audio, HUD texts and the camera.
\* lines 481-484
updatePlayer(w, dt, rnd) ==
  LET p1 == PlayerUpdate(w.player, dt, getState(w.input))
  IN [ w EXCEPT !.player = p1,
                !.playerZ = @ + playerMove(p1.speed, dt, rnd.dirZ),
                !.calls = Append(@, "player.update") ]

\* line 487
updateTraffic(w, dt, rnd) ==
  [ w EXCEPT !.cars = TrafficUpdate(@, dt, playerPosition(w.playerZ), w.player.speed, rnd),
             !.calls = Append(@, "traffic.update") ]

\* lines 496-498
onCollisions(w, collisions) ==
  IF collisions.threw THEN [w EXCEPT !.threw = TRUE]
  ELSE IF Len(collisions.value) > 0 THEN handleCollisions(w, collisions.value)
  ELSE w

\* lines 490-493
updateCollisions(w) ==
  onCollisions([w EXCEPT !.calls = Append(@, "checkCollisions")],
               checkCollisions(PlayerGetCollider(w.player, playerPosition(w.playerZ)),
                               getColliders(w.cars)))

\* lines 507-511
onNearMisses(w, nearMisses) ==
  IF nearMisses.threw THEN [w EXCEPT !.threw = TRUE]
  ELSE IF nearMisses.value > 0
       THEN [w EXCEPT !.game.score = @ + nearMisses.value * NEAR_MISS_POINTS]
  ELSE w

\* lines 501-505
updateNearMisses(w) ==
  IF w.threw THEN w
  ELSE onNearMisses([w EXCEPT !.calls = Append(@, "checkNearMisses")],
                    checkNearMisses(PlayerGetCollider(w.player, playerPosition(w.playerZ)),
                                    getColliders(w.cars), NEAR_MISS_DISTANCE))

\* line 514
updateEnvironment(w) ==
  IF w.threw THEN w
  ELSE [ w EXCEPT !.road = updateRoadSegments(@, w.playerZ),
                  !.buildings = updateBuildings(@, w.playerZ),
                  !.streetLamps = updateStreetLamps(@, w.playerZ),
                  !.calls = Append(@, "environment.update") ]

update(w, dt, rnd) ==
  updateEnvironment(
    updateNearMisses(
      updateCollisions(
        updateTraffic(updatePlayer(w, dt, rnd), dt, rnd))))

\* Game.update as the scheduling specification sees it: it returns, it
\* raises an exception, or its collision handling ends the game
UpdateOutcomes == {"returns", "throws", "gameover"}

\* Game.update with the list its collision check returns: one collision of
\* intensity 1/2, one of intensity 1, or two of intensity 1
CrashOutcomes == {"returns", "graze", "hit", "hits"}

crashCollisions(u) ==
  IF u = "graze" THEN << [intensity |-> [num |-> 1, den |-> 2]] >>
  ELSE IF u = "hit" THEN << [intensity |-> [num |-> 1, den |-> 1]] >>
  ELSE IF u = "hits"
       THEN << [intensity |-> [num |-> 1, den |-> 1]], [intensity |-> [num |-> 1, den |-> 1]] >>
  ELSE << >>

LoopUpdate(w, u) ==
  IF u = "throws"
  THEN [ w EXCEPT !.calls = << "player.update", "traffic.update", "checkCollisions" >>,
                  !.threw = TRUE ]
  ELSE IF u = "gameover" THEN gameOver([w EXCEPT !.calls = UpdateOrder])
  ELSE onCollisions([w EXCEPT !.calls = UpdateOrder], Returned(crashCollisions(u)))

\* gameLoopRuns without the test of isPaused
gameLoopRuns_ignoresPause(g) == g.isRunning

\* the test of gameLoop (line 463): TRUE when the loop goes on
gameLoopRuns(g) == ~(~g.isRunning \/ g.isPaused)

\* line 470; u = "code" evaluates update, another u is an outcome of
\* UpdateOutcomes
runUpdate(w, dt, rnd, u) ==
  IF u = "code" THEN update(w, dt, rnd) ELSE LoopUpdate(w, u)

\* line 476: requestAnimationFrame, reached when update returned
scheduleFrame(w) ==
  IF w.threw THEN w ELSE [w EXCEPT !.raf = @ + 1, !.scheduled = @ + 1]

\* gameLoop (lines 462-477), t = performance.now() in ms
gameLoop(w, t, rnd, u) ==
  IF ~gameLoopRuns(w.game) THEN w
  ELSE scheduleFrame(
         runUpdate([ w EXCEPT !.game.deltaTime = Min(t - w.game.lastTime, DT_CAP_MS),
                              !.game.lastTime = t, !.ticks = @ + 1 ],
                   Min(t - w.game.lastTime, DT_CAP_MS), rnd, u))

\* startGame (lines 423-443)
startGame(w, t, rnd0, rnd, u) ==
  LET w1 == [ w EXCEPT !.game.gameState = "playing", !.game.isRunning = TRUE,
                       !.game.score = 0, !.game.lastTime = t,
                       !.player = reset(@), !.playerZ = 0,
                       !.cars = TrafficReset(rnd0),
                       !.hud = HudShow(HudHideMenu(@)) ]
  IN gameLoop(w1, t, rnd, u)

\* togglePause (lines 445-460)
togglePause(w, t, rnd, u) ==
  IF w.game.gameState = "playing"
  THEN LET isPaused == ~w.game.isPaused
           w1 == [ w EXCEPT !.game.isPaused = isPaused,
                            !.game.gameState = IF isPaused THEN "paused" ELSE "playing" ]
       IN IF isPaused
          THEN [w1 EXCEPT !.hud.pause = TRUE]
          ELSE gameLoop([w1 EXCEPT !.hud.pause = FALSE, !.game.lastTime = t], t, rnd, u)
  ELSE w

\* InputManager._onKeyDown (input.js lines 78-111); _emit catches what a
\* callback throws (lines 330-340)
inputKeyDown(w, key, t, rnd, u) ==
  LET repeat == key \in w.input.held
      w0 == [ w EXCEPT !.input.keyState = onKeyDownFlags(@, key),
                       !.input.held = @ \cup {key} ]
  IN IF ~repeat /\ key \in KEYS.PAUSE
     THEN [togglePause(w0, t, rnd, u) EXCEPT !.threw = FALSE]
     ELSE w0

\* the menu's key handler (hud.js lines 1015-1019)
menuKeyDown(w, key, t, rnd0, rnd, u) ==
  IF w.hud.menuKeyHandler /\ key \in MenuStartKeys
  THEN startGame(w, t, rnd0, rnd, u)
  ELSE w

\* the keydown listeners in the order they were added
onKeyDown(w, key, t, rnd0, rnd, u) ==
  menuKeyDown(inputKeyDown(w, key, t, rnd, u), key, t, rnd0, rnd, u)

\* the keyup listener (input.js lines 118-140)
onKeyUp(w, key) ==
  [ w EXCEPT !.input.keyState = onKeyUpFlags(@, key), !.input.held = @ \ {key} ]

\* ------------------------------------------------------------------------
\* The game in the browser: Spec
\* ------------------------------------------------------------------------
PhysIdle == [playerCollider |-> Null, trafficColliders |-> Null, threshold |-> 0,
             collisions |-> Null, nearMisses |-> Null, other |-> 0,
             separation |-> Null]

InputInit == [keyState |-> KeyStateInit, held |-> {}]

Idle(op) ==
  [ op |-> op, wasPaused |-> FALSE, calls |-> <<>>, threw |-> FALSE,
    ticks |-> 0, scheduled |-> 0 ]

\* Game.init (lines 359-401): the objects are constructed, the initial
\* traffic is spawned and the menu is shown
Init ==
  /\ game = GameInit
  /\ input = InputInit
  /\ hud = HudShowMenu(HudInit)
  /\ player = PlayerInit
  /\ cars \in {spawnInitialCars(rnd) : rnd \in RndSet}
  /\ road = createRoad
  /\ buildings = createBuildings(NoJitter)
  /\ streetLamps = createStreetLamps
  /\ playerZ = 0
  /\ phys = PhysIdle
  /\ raf = 0
  /\ now = 0
  /\ last = Idle("init")

\* the state a handler leaves behind
Commit(w, op) ==
  /\ game' = w.game
  /\ input' = w.input
  /\ hud' = w.hud
  /\ player' = w.player
  /\ cars' = w.cars
  /\ road' = w.road
  /\ buildings' = w.buildings
  /\ streetLamps' = w.streetLamps
  /\ playerZ' = w.playerZ
  /\ raf' = w.raf
  /\ last' = [ op |-> op, wasPaused |-> game.isPaused, calls |-> w.calls,
               threw |-> w.threw, ticks |-> w.ticks, scheduled |-> w.scheduled ]
  /\ UNCHANGED <<phys, now>>

\* a key goes down (or repeats) that neither pauses nor starts the game
KeyDown ==
  \E key \in AllKeys :
    /\ Cardinality(input.held \cup {key}) <= MaxHeld
    /\ ~(key \in KEYS.PAUSE /\ key \notin input.held)
    /\ ~(key \in MenuStartKeys /\ hud.menuKeyHandler)
    /\ Commit(onKeyDown(World, key, now * Quantum, NoRnd, NoRnd, "code"), "keydown")

\* the first keydown of Escape or KeyP: the pause event
PausePress ==
  \E key \in KEYS.PAUSE, rnd \in RndSet :
    /\ key \notin input.held
    /\ Cardinality(input.held \cup {key}) <= MaxHeld
    /\ Commit(onKeyDown(World, key, now * Quantum, NoRnd, rnd, "code"), "pause")

\* Enter or Space while the menu's key handler is registered
MenuKeyStart ==
  \E key \in MenuStartKeys, rnd0 \in RndSet, rnd \in RndSet :
    /\ hud.menuKeyHandler
    /\ Cardinality(input.held \cup {key}) <= MaxHeld
    /\ Commit(onKeyDown(World, key, now * Quantum, rnd0, rnd, "code"), "startGame")

\* a click on the menu's START button (hud.js lines 1010-1012)
ClickStart ==
  \E rnd0 \in RndSet, rnd \in RndSet :
    /\ hud.menu
    /\ Commit(startGame(World, now * Quantum, rnd0, rnd, "code"), "startGame")

KeyUp ==
  \E key \in input.held : Commit(onKeyUp(World, key), "keyup")

\* time passes
Advance ==
  /\ now < MaxNow
  /\ now' = now + 1
  /\ last' = [Idle("advance") EXCEPT !.wasPaused = game.isPaused]
  /\ UNCHANGED <<game, input, hud, player, cars, road, buildings, streetLamps, playerZ, phys, raf>>

Next == KeyDown \/ PausePress \/ MenuKeyStart \/ ClickStart \/ KeyUp \/ Advance

Spec == Init /\ [][Next]_vars

\* ------------------------------------------------------------------------
\* The scheduling of the game loop: SpecLoop.  Game.update is one of
\* UpdateOutcomes; the handlers are the ones of Spec.
\* ------------------------------------------------------------------------
LoopStart ==
  \E u \in UpdateOutcomes :
    /\ hud.menu
    /\ raf < MaxRaf
    /\ Commit(startGame(World, now * Quantum, NoRnd, NoRnd, u), "startGame")

LoopPause ==
  \E u \in UpdateOutcomes :
    /\ raf < MaxRaf
    /\ Commit(togglePause(World, now * Quantum, NoRnd, u), "pause")

\* the display refresh runs one waiting gameLoop callback (line 476)
LoopFrame ==
  \E u \in UpdateOutcomes :
    /\ raf > 0
    /\ Commit(gameLoop([World EXCEPT !.raf = @ - 1], now * Quantum, NoRnd, u), "frame")

\* the RESTART button of the game-over screen (hud.js lines 1043-1046)
LoopRestart ==
  \E u \in UpdateOutcomes :
    /\ hud.gameover
    /\ raf < MaxRaf
    /\ Commit([ startGame(World, now * Quantum, NoRnd, NoRnd, u)
                 EXCEPT !.hud = HudHideGameOver(@) ], "restart")

\* the MENU button of the game-over screen (hud.js lines 1048-1051)
LoopMenu ==
  /\ hud.gameover
  /\ Commit([showMenu(World) EXCEPT !.hud = HudHideGameOver(@)], "menu")

NextLoop ==
  LoopStart \/ LoopPause \/ LoopFrame \/ LoopRestart \/ LoopMenu \/ Advance

SpecLoop == Init /\ [][NextLoop]_vars

\* ------------------------------------------------------------------------
\* Collisions and the end of a round: SpecOver.  The handlers are the ones
\* of Spec; the collision check of a tick returns one of the lists of
\* CrashOutcomes, which handleCollisions then handles.
\* ------------------------------------------------------------------------
OverStart ==
  \E u \in CrashOutcomes :
    /\ hud.menu
    /\ raf < MaxRaf
    /\ Commit(startGame(World, now * Quantum, NoRnd, NoRnd, u), "startGame")

OverPause ==
  \E u \in CrashOutcomes :
    /\ raf < MaxRaf
    /\ Commit(togglePause(World, now * Quantum, NoRnd, u), "pause")

OverFrame ==
  \E u \in CrashOutcomes :
    /\ raf > 0
    /\ Commit(gameLoop([World EXCEPT !.raf = @ - 1], now * Quantum, NoRnd, u), "frame")

OverRestart ==
  \E u \in CrashOutcomes :
    /\ hud.gameover
    /\ raf < MaxRaf
    /\ Commit([ startGame(World, now * Quantum, NoRnd, NoRnd, u)
                 EXCEPT !.hud = HudHideGameOver(@) ], "restart")

OverMenu ==
  /\ hud.gameover
  /\ Commit([showMenu(World) EXCEPT !.hud = HudHideGameOver(@)], "menu")

NextOver == OverStart \/ OverPause \/ OverFrame \/ OverRestart \/ OverMenu

SpecOver == Init /\ [][NextOver]_vars

\* ------------------------------------------------------------------------
\* The player's car on its own: SpecPlayer.  From reset() the car is driven
\* tick by tick (full frames; forward, forward with nitro, or backward from
\* standstill), which reaches every speed limit; then at most MaxFree calls
\* of update or onCollision with any argument follow.  addDamage and reset
\* may be called at any time.
\* ------------------------------------------------------------------------
\* free calls after the drive
MaxFree == 1

DriveInputs ==
  { [KeyStateInit EXCEPT !.forward = TRUE],
    [KeyStateInit EXCEPT !.forward = TRUE, !.nitro = TRUE],
    [KeyStateInit EXCEPT !.backward = TRUE] }

\* the collision records handed to onCollision: a result of checkCollisions
\* (no relativeVelocity), and records with a relativeVelocity in mph
CollisionArgs ==
  { [intensity |-> [num |-> 1, den |-> 2]],
    [intensity |-> [num |-> 1, den |-> 2], relativeVelocity |-> 100],
    [intensity |-> [num |-> 1, den |-> 2], relativeVelocity |-> -50] }

\* the amounts handed to addDamage
DamageAmounts == {-50, 50, 150}

InitPlayer ==
  /\ game = GameInit
  /\ input = InputInit
  /\ hud = HudInit
  /\ player = PlayerInit
  /\ cars = <<>>
  /\ road = createRoad
  /\ buildings = createBuildings(NoJitter)
  /\ streetLamps = createStreetLamps
  /\ playerZ = 0
  /\ phys = PhysIdle
  /\ raf = 0
  /\ now = 0
  /\ last = [op |-> "reset", n |-> 0]

PCommit(p, op, n) ==
  /\ player' = p
  /\ last' = [op |-> op, n |-> n]
  /\ UNCHANGED <<game, input, hud, cars, road, buildings, streetLamps, playerZ, phys, raf, now>>

PDrive ==
  \E in \in DriveInputs :
    /\ last.n = 0
    /\ in.backward => player.speed <= 0
    /\ PCommit(PlayerUpdate(player, DT_CAP_MS, in), "drive", 0)

PUpdate ==
  \E dt \in DtSet, in \in InputStates :
    /\ last.n < MaxFree
    /\ PCommit(PlayerUpdate(player, dt, in), "free", last.n + 1)

POnCollision ==
  \E c \in CollisionArgs :
    /\ last.n < MaxFree
    /\ PCommit(onCollision(player, c), "free", last.n + 1)

PAddDamage ==
  \E a \in DamageAmounts :
    /\ last.n <= MaxFree
    /\ PCommit(addDamage(player, a * DamageScale), last.op, last.n)

PReset ==
  /\ last.n >= 0
  /\ PCommit(reset(player), "reset", 0)

NextPlayer == PDrive \/ PUpdate \/ POnCollision \/ PAddDamage \/ PReset

SpecPlayer == InitPlayer /\ [][NextPlayer]_vars

\* ------------------------------------------------------------------------
\* The road under a moving player: SpecEnv.  A tick moves the player along z
\* (PlayerCar.update) and then runs Environment.updateRoadSegments; a
\* restart puts the player back at START_POSITION (PlayerCar.reset through
\* startGame, which leaves the environment as it is).
\* ------------------------------------------------------------------------
\* how far the player goes, in units of the world
MaxAhead == 2600

MaxBack == 5

\* direction.z of a tick, 1/1000: at the boosted speed limit and a full frame
\* 0.597 moves the car by one unit
EnvDirections == {-597, 0, 597}

InitEnv ==
  /\ game = GameInit
  /\ input = InputInit
  /\ hud = HudInit
  /\ player = PlayerInit
  /\ cars = <<>>
  /\ road = createRoad
  /\ buildings \in {createBuildings(jitter) : jitter \in BuildingJitters}
  /\ streetLamps = createStreetLamps
  /\ playerZ = 0
  /\ phys = PhysIdle
  /\ raf = 0
  /\ now = 0
  /\ last = [op |-> "init"]

EnvTick ==
  \E dirZ \in EnvDirections :
    LET pz == playerZ + playerMove(effectiveMaxSpeed(TRUE), DT_CAP_MS, dirZ)
    IN /\ pz >= -(MaxBack * 1000)
       /\ pz <= MaxAhead * 1000
       /\ playerZ' = pz
       /\ road' = updateRoadSegments(road, pz)
       /\ buildings' = updateBuildings(buildings, pz)
       /\ streetLamps' = updateStreetLamps(streetLamps, pz)
       /\ last' = [op |-> "tick"]
       /\ UNCHANGED <<game, input, hud, player, cars, phys, raf, now>>

EnvRestart ==
  /\ playerZ' = 0
  /\ last' = [op |-> "restart"]
  /\ UNCHANGED <<game, input, hud, player, cars, road, buildings, streetLamps, phys, raf, now>>

NextEnv == EnvTick \/ EnvRestart

SpecEnv == InitEnv /\ [][NextEnv]_vars

\* ------------------------------------------------------------------------
\* The queries of the PhysicsEngine on their own: SpecPhys.  Init draws the
\* player's collider, the array of traffic colliders and the threshold; the
\* actions apply checkCollisions and checkNearMisses to them.
\* ------------------------------------------------------------------------
\* a car-shaped box, a large square box and a flat box
CarSize == Vec3(2, 2, 4)

LargeSize == Vec3(20, 2, 20)

FlatSize == Vec3(4, 0, 2)

Origin == Vec3(0, 0, 0)

PlayerColliders ==
  {Null, Box(Origin, CarSize), Box(Origin, LargeSize), Box(Origin, FlatSize)}

\* around a car at the origin: coincident, partly inside, one unit inside
\* along z, touching and just beyond on each axis, touching on all axes, and
\* at the distances 3, 5 and 6 along x
CarPlaces ==
  { Origin, Vec3(1, 0, 1), Vec3(2, 0, 0), Vec3(3, 0, 0), Vec3(0, 2, 0),
    Vec3(0, 3, 0), Vec3(0, 0, 3), Vec3(0, 0, 4), Vec3(0, 0, 5), Vec3(2, 2, 4),
    Vec3(3, 2, 4), Vec3(5, 0, 0), Vec3(6, 0, 0) }

\* around a large box at the origin: 0.9, 0.95 times the safe distance 20,
\* and the safe distance plus the threshold 3, less one and exactly
LargePlaces == {Origin, Vec3(18, 0, 0), Vec3(19, 0, 0), Vec3(0, 0, 19),
                Vec3(22, 0, 0), Vec3(23, 0, 0)}

TrafficEntries ==
  {Null} \cup {Box(pos, CarSize) : pos \in CarPlaces}
         \cup {Box(pos, LargeSize) : pos \in LargePlaces}
         \cup {Box(Origin, FlatSize)}

\* entries of the traffic array
MaxColliders == 2

TrafficArrays ==
  {Null} \cup {Array(items) : items \in UNION {[1..n -> TrafficEntries] : n \in 0..MaxColliders}}

Thresholds == {0, NEAR_MISS_DISTANCE}

InitPhys ==
  /\ game = GameInit
  /\ input = InputInit
  /\ hud = HudInit
  /\ player = PlayerInit
  /\ cars = <<>>
  /\ road = createRoad
  /\ buildings = createBuildings(NoJitter)
  /\ streetLamps = createStreetLamps
  /\ playerZ = 0
  /\ raf = 0
  /\ now = 0
  /\ last = [op |-> "init"]
  /\ phys \in [ playerCollider : PlayerColliders, trafficColliders : TrafficArrays,
                threshold : Thresholds, collisions : {Null}, nearMisses : {Null},
                other : {0}, separation : {Null} ]

PhysCheckCollisions ==
  /\ phys.collisions = Null
  /\ phys' = [ phys EXCEPT !.collisions =
                 checkCollisions(phys.playerCollider, phys.trafficColliders) ]
  /\ last' = [op |-> "checkCollisions"]
  /\ UNCHANGED <<game, input, hud, player, cars, road, buildings, streetLamps, playerZ, raf, now>>

PhysCheckNearMisses ==
  /\ phys.nearMisses = Null
  /\ phys' = [ phys EXCEPT !.nearMisses =
                 checkNearMisses(phys.playerCollider, phys.trafficColliders,
                                 phys.threshold) ]
  /\ last' = [op |-> "checkNearMisses"]
  /\ UNCHANGED <<game, input, hud, player, cars, road, buildings, streetLamps, playerZ, raf, now>>

\* getSeparationVector for the player's collider and one entry of the array
PhysGetSeparationVector ==
  /\ phys.separation = Null
  /\ phys.trafficColliders # Null
  /\ \E k \in 1..Len(phys.trafficColliders.items) :
       phys' = [ phys EXCEPT !.other = k,
                             !.separation =
                               getSeparationVector(phys.playerCollider,
                                                   phys.trafficColliders.items[k]) ]
  /\ last' = [op |-> "getSeparationVector"]
  /\ UNCHANGED <<game, input, hud, player, cars, road, buildings, streetLamps, playerZ, raf, now>>

NextPhys == PhysCheckCollisions \/ PhysCheckNearMisses \/ PhysGetSeparationVector

SpecPhys == InitPhys /\ [][NextPhys]_vars

\* ------------------------------------------------------------------------
\* The PlayerCar between ticks and collisions: SpecGear.  Game.update calls
\* player.update once per tick and, through handleCollisions, onCollision
\* for every collision of the tick; startGame calls reset.  The steering
\* and nitro keys are left out.
\* ------------------------------------------------------------------------
GearInputs == { in \in InputStates : ~in.left /\ ~in.right /\ ~in.nitro }

\* onCollision calls between two resets
MaxCrashes == 2

InitGear ==
  /\ game = GameInit
  /\ input = InputInit
  /\ hud = HudInit
  /\ player = PlayerInit
  /\ cars = <<>>
  /\ road = createRoad
  /\ buildings = createBuildings(NoJitter)
  /\ streetLamps = createStreetLamps
  /\ playerZ = 0
  /\ phys = PhysIdle
  /\ raf = 0
  /\ now = 0
  /\ last = [op |-> "reset", crashes |-> 0]

GCommit(p, op, crashes) ==
  /\ player' = p
  /\ last' = [op |-> op, crashes |-> crashes]
  /\ UNCHANGED <<game, input, hud, cars, road, buildings, streetLamps, playerZ, phys, raf, now>>

GearUpdate ==
  \E dt \in DtSet, in \in GearInputs :
    /\ last.crashes <= MaxCrashes
    /\ GCommit(PlayerUpdate(player, dt, in), "update", last.crashes)

GearOnCollision ==
  /\ last.op \in {"update", "onCollision"}
  /\ last.crashes < MaxCrashes
  /\ GCommit(onCollision(player, [intensity |-> [num |-> 1, den |-> 2]]),
             "onCollision", last.crashes + 1)

GearReset ==
  /\ last.op # "reset"
  /\ GCommit(reset(player), "reset", 0)

NextGear == GearUpdate \/ GearOnCollision \/ GearReset

SpecGear == InitGear /\ [][NextGear]_vars

\* ------------------------------------------------------------------------
\* One TrafficCar on its own: SpecCar.  Init is a car as the TrafficManager
\* spawns it; the actions call update with a frame delta, the player's
\* position and speed and the Math.random() samples of the call.  The
\* player's z is given as its distance behind the car.  last keeps the
\* arguments of the call, whether it drew a lane-change attempt and whether
\* it changed the car's lane.
\* ------------------------------------------------------------------------
\* updates with dt > 0 after which no new lane change is started in the model
MaxCarTicks == 3

\* frame deltas in ms: none, the cap of gameLoop, and a quarter second
CarDtSet == {0, DT_CAP_MS, 250}

\* the player behind the car by 20 and by 30 units, and ahead of it by 5
PlayerOffsets == {20000, 30000, -5000}

\* the player in the middle of the road and 3 units to the right of it
PlayerXs == {0, 3000}

\* the player's speed, mph
PlayerSpeeds == {50, 80}

\* Math.random() for randomSpeed: 40 and 50 mph
CarSpeedSamples == {0, 334}

CarRndSet == [chance : {4, 5}, dir : {500, 501}]

\* Math.random() of a spawn: the last lane, at the near end of the range
SpawnRndSet == [speed : CarSpeedSamples, lane : {999}, z : {0}]

\* a car as it is spawned: one of the first LANE_COUNT cars of
\* spawnInitialCars, a car of spawnCarAhead on a free road, and one that
\* spawnCarAhead moved to the next lane because its lane was taken
SpawnedCars ==
  UNION { { spawnInitialCars(rnd)[i] : i \in 1..LANE_COUNT }
            \cup { spawnCarAhead(<<>>, Vec3(0, 500, 0), rnd)[1],
                   spawnCarAhead(spawnCarAhead(<<>>, Vec3(0, 500, 0), rnd),
                                 Vec3(0, 500, 0), rnd)[2] } : rnd \in SpawnRndSet }

InitCar ==
  /\ game = GameInit
  /\ input = InputInit
  /\ hud = HudInit
  /\ player = PlayerInit
  /\ road = createRoad
  /\ buildings = createBuildings(NoJitter)
  /\ streetLamps = createStreetLamps
  /\ playerZ = 0
  /\ phys = PhysIdle
  /\ raf = 0
  /\ now = 0
  /\ \E car \in SpawnedCars : cars = << car >>
  /\ last = [ op |-> "spawn", dt |-> 0, playerPosition |-> Vec3(0, 500, 0),
              playerSpeed |-> 0, tried |-> FALSE, changedLane |-> FALSE, ticks |-> 0 ]

CarCommit(dt, pos, speed, rnd) ==
  /\ cars' = << TrafficCarUpdate(cars[1], dt, pos, speed, rnd) >>
  /\ last' = [ op |-> "update", dt |-> dt, playerPosition |-> pos,
               playerSpeed |-> speed,
               tried |-> (cars[1].targetLane = cars[1].lane /\ rnd.chance < 5),
               changedLane |-> TrafficCarUpdate(cars[1], dt, pos, speed, rnd).lane # cars[1].lane,
               ticks |-> IF dt > 0 THEN Min(MaxCarTicks, last.ticks + 1) ELSE last.ticks ]
  /\ UNCHANGED <<game, input, hud, player, road, buildings, streetLamps, playerZ, phys, raf, now>>

\* update with time passing
CarTick ==
  \E dt \in CarDtSet \ {0}, off \in PlayerOffsets, px \in PlayerXs,
     ps \in PlayerSpeeds, rnd \in CarRndSet :
    /\ last.ticks < MaxCarTicks \/ cars[1].targetLane # cars[1].lane
    /\ last.ticks < MaxCarTicks \/ rnd.chance >= 5
    /\ CarCommit(dt, Vec3(px, 500, cars[1].z - off), ps * SpeedScale, rnd)

\* update with a frame delta of 0
CarIdle ==
  \E off \in PlayerOffsets, px \in PlayerXs, ps \in PlayerSpeeds, rnd \in CarRndSet :
    /\ last.ticks < MaxCarTicks
    /\ CarCommit(0, Vec3(px, 500, cars[1].z - off), ps * SpeedScale, rnd)

NextCar == CarTick \/ CarIdle

SpecCar == InitCar /\ [][NextCar]_vars

\* The lane changes of one TrafficCar: SpecLane.  The player stays at the
\* start position; updates with a positive frame delta keep coming
\* (requestAnimationFrame passes an increasing time stamp).
LaneTick ==
  \E dt \in CarDtSet \ {0}, rnd \in CarRndSet :
    /\ last.ticks < MaxCarTicks \/ cars[1].targetLane # cars[1].lane
    /\ last.ticks < MaxCarTicks \/ rnd.chance >= 5
    /\ CarCommit(dt, Vec3(0, 500, 0), 0, rnd)

LaneIdle ==
  \E rnd \in CarRndSet :
    /\ last.ticks < MaxCarTicks
    /\ CarCommit(0, Vec3(0, 500, 0), 0, rnd)

NextLane == LaneTick \/ LaneIdle

SpecLane == InitCar /\ [][NextLane]_vars /\ WF_vars(LaneTick)

\* ------------------------------------------------------------------------
\* The TrafficManager behind a player who keeps the forward key down:
\* SpecTraffic.  A tick is player.update followed by traffic.update with
\* the player's new position and speed (Game.update, lines 481-487), at the
\* capped frame delta; a restart is player.reset and traffic.reset
\* (startGame, lines 428-430).  Math.random() stays at or above
\* LANE_CHANGE_CHANCE, so the cars keep their lanes.  last.spawned is the
\* number of cars the update's refill loop has appended.
\* ------------------------------------------------------------------------
\* ticks of one run
MaxTrafficTicks == 260

\* Math.random() of an update: the speed, lane and distance of a spawn
TrafficRndSet ==
  [ speed : {0}, chance : {5}, dir : {500}, lane : {0, 250}, z : {150, 500, 900},
    dirZ : {1000} ]

Forward == [KeyStateInit EXCEPT !.forward = TRUE]

InitTraffic ==
  /\ game = GameInit
  /\ input = InputInit
  /\ hud = HudInit
  /\ player = PlayerInit
  /\ cars = spawnInitialCars(NoRnd)
  /\ road = createRoad
  /\ buildings = createBuildings(NoJitter)
  /\ streetLamps = createStreetLamps
  /\ playerZ = 0
  /\ phys = PhysIdle
  /\ raf = 0
  /\ now = 0
  /\ last = [op |-> "init", spawned |-> 0, ticks |-> 0]

\* the player after player.update, and the position it passes on
TickPlayer == PlayerUpdate(player, DT_CAP_MS, Forward)

TickZ == playerZ + playerMove(TickPlayer.speed, DT_CAP_MS, 1000)

TrafficTick ==
  \E rnd \in TrafficRndSet :
    /\ last.ticks < MaxTrafficTicks
    /\ player' = TickPlayer
    /\ playerZ' = TickZ
    /\ cars' = TrafficUpdate(cars, DT_CAP_MS, playerPosition(TickZ), TickPlayer.speed, rnd)
    /\ last' = [ op |-> "update",
                 spawned |-> TRAFFIC_COUNT
                               - Len(despawn([ i \in 1..Len(cars) |->
                                                 moveForward(cars[i], DT_CAP_MS) ], TickZ)),
                 ticks |-> last.ticks + 1 ]
    /\ UNCHANGED <<game, input, hud, road, buildings, streetLamps, phys, raf, now>>

TrafficRestart ==
  /\ last.op = "update"
  /\ player' = reset(player)
  /\ playerZ' = 0
  /\ cars' = TrafficReset(NoRnd)
  /\ last' = [op |-> "reset", spawned |-> 0, ticks |-> last.ticks]
  /\ UNCHANGED <<game, input, hud, road, buildings, streetLamps, phys, raf, now>>

NextTraffic == TrafficTick \/ TrafficRestart

SpecTraffic == InitTraffic /\ [][NextTraffic]_vars

\* ------------------------------------------------------------------------
\* The whole car between two rounds: SpecReset.  A round is up to
\* MaxResetTicks calls of update at the frame cap with the keys of
\* ResetInputs held, and at most one onCollision; startGame calls reset at
\* any point.  last.changed names the fields that a reset found away from
\* their starting values.
\* ------------------------------------------------------------------------
MaxResetTicks == 8

\* the heading stays within the range of sin and cos above, in 1/1000 rad
MaxHeading == 1500

ResetInputs ==
  { [KeyStateInit EXCEPT !.forward = TRUE, !.nitro = TRUE],
    [KeyStateInit EXCEPT !.forward = TRUE, !.nitro = TRUE, !.right = TRUE, !.brake = TRUE],
    [KeyStateInit EXCEPT !.forward = TRUE, !.left = TRUE] }

InitReset ==
  /\ game = GameInit
  /\ input = InputInit
  /\ hud = HudInit
  /\ player = PlayerStart
  /\ cars = <<>>
  /\ road = createRoad
  /\ buildings = createBuildings(NoJitter)
  /\ streetLamps = createStreetLamps
  /\ playerZ = START_POSITION.z
  /\ phys = PhysIdle
  /\ raf = 0
  /\ now = 0
  /\ last = [op |-> "reset", ticks |-> 0, crashed |-> FALSE, changed |-> {}]

ResetDrive ==
  \E in \in ResetInputs :
    LET p == steerAndMove(PlayerUpdate(player, DT_CAP_MS, in), DT_CAP_MS, in)
    IN /\ last.ticks < MaxResetTicks
       /\ Abs(p.heading) <= MaxHeading
       /\ player' = p
       /\ playerZ' = p.position.z
       /\ last' = [ op |-> "update", ticks |-> last.ticks + 1,
                    crashed |-> last.crashed, changed |-> {} ]
       /\ UNCHANGED <<game, input, hud, cars, road, buildings, streetLamps, phys, raf, now>>

ResetCrash ==
  /\ last.op = "update"
  /\ ~last.crashed
  /\ player' = onCollision(player, [intensity |-> [num |-> 1, den |-> 2]])
  /\ last' = [ op |-> "onCollision", ticks |-> last.ticks,
               crashed |-> TRUE, changed |-> {} ]
  /\ UNCHANGED <<game, input, hud, cars, road, buildings, streetLamps, playerZ, phys, raf, now>>

ResetCar ==
  /\ player' = reset(player)
  /\ playerZ' = reset(player).position.z
  /\ last' = [ op |-> "reset", ticks |-> 0, crashed |-> FALSE,
               changed |-> {f \in DOMAIN player : player[f] # PlayerStart[f]} ]
  /\ UNCHANGED <<game, input, hud, cars, road, buildings, streetLamps, phys, raf, now>>

NextReset == ResetDrive \/ ResetCrash \/ ResetCar

SpecReset == InitReset /\ [][NextReset]_vars

\* ------------------------------------------------------------------------
\* The nitro of the PlayerCar: SpecNitro.  Game.update calls player.update
\* once per tick with the record getState returns; the steering and the
\* backward key are left out.  last.in is the input of the last update.
\* ------------------------------------------------------------------------
NitroInputs ==
  { [KeyStateInit EXCEPT !.forward = TRUE],
    [KeyStateInit EXCEPT !.forward = TRUE, !.nitro = TRUE],
    [KeyStateInit EXCEPT !.nitro = TRUE, !.brake = TRUE],
    [KeyStateInit EXCEPT !.nitro = TRUE] }

InitNitro ==
  /\ game = GameInit
  /\ input = InputInit
  /\ hud = HudInit
  /\ player = PlayerInit
  /\ cars = <<>>
  /\ road = createRoad
  /\ buildings = createBuildings(NoJitter)
  /\ streetLamps = createStreetLamps
  /\ playerZ = 0
  /\ phys = PhysIdle
  /\ raf = 0
  /\ now = 0
  /\ last = [op |-> "reset", in |-> KeyStateInit]

NitroUpdate ==
  \E dt \in DtSet, in \in NitroInputs :
    /\ player' = PlayerUpdate(player, dt, in)
    /\ last' = [op |-> "update", in |-> in]
    /\ UNCHANGED <<game, input, hud, cars, road, buildings, streetLamps, playerZ, phys, raf, now>>

NitroReset ==
  /\ player' = reset(player)
  /\ last' = [op |-> "reset", in |-> KeyStateInit]
  /\ UNCHANGED <<game, input, hud, cars, road, buildings, streetLamps, playerZ, phys, raf, now>>

NextNitro == NitroUpdate \/ NitroReset

SpecNitro == InitNitro /\ [][NextNitro]_vars

\* ------------------------------------------------------------------------
\* The whole car coasting: SpecCoast.  The car is driven for up to
\* MaxDriveTicks ticks; then forward and backward are released, the keys of
\* one of CoastInputs are held and Game.update goes on calling update with
\* them on every frame.  last.coasting tells the two phases apart.
\* ------------------------------------------------------------------------
MaxDriveTicks == 2

CoastDriveInputs ==
  { [KeyStateInit EXCEPT !.forward = TRUE],
    [KeyStateInit EXCEPT !.forward = TRUE, !.left = TRUE],
    [KeyStateInit EXCEPT !.backward = TRUE, !.right = TRUE] }

CoastInputs ==
  { KeyStateInit,
    [KeyStateInit EXCEPT !.brake = TRUE],
    [KeyStateInit EXCEPT !.right = TRUE],
    [KeyStateInit EXCEPT !.brake = TRUE, !.left = TRUE, !.nitro = TRUE] }

InitCoast ==
  /\ game = GameInit
  /\ input = InputInit
  /\ hud = HudInit
  /\ player = PlayerStart
  /\ cars = <<>>
  /\ road = createRoad
  /\ buildings = createBuildings(NoJitter)
  /\ streetLamps = createStreetLamps
  /\ playerZ = START_POSITION.z
  /\ phys = PhysIdle
  /\ raf = 0
  /\ now = 0
  /\ last = [op |-> "reset", ticks |-> 0, coasting |-> FALSE, in |-> KeyStateInit]

CoastCommit(p, op, ticks, coasting, in) ==
  /\ player' = p
  /\ playerZ' = p.position.z
  /\ last' = [op |-> op, ticks |-> ticks, coasting |-> coasting, in |-> in]
  /\ UNCHANGED <<game, input, hud, cars, road, buildings, streetLamps, phys, raf, now>>

CoastDrive ==
  \E in \in CoastDriveInputs :
    /\ ~last.coasting
    /\ last.ticks < MaxDriveTicks
    /\ \E q \in { PlayerUpdate(player, DT_CAP_MS, in) } :
       \E p \in { steerAndMove(q, DT_CAP_MS, in) } :
         CoastCommit(p, "update", last.ticks + 1, FALSE, in)

\* keyup of the forward and backward keys; the keys of in stay held
CoastRelease ==
  \E in \in CoastInputs :
    /\ ~last.coasting
    /\ CoastCommit(player, "keyup", last.ticks, TRUE, in)

CoastTick ==
  /\ last.coasting
  /\ \E q \in { PlayerUpdate(player, DT_CAP_MS, last.in) } :
     \E p \in { steerAndMove(q, DT_CAP_MS, last.in) } :
       CoastCommit(p, "update", last.ticks, TRUE, last.in)

NextCoast == CoastDrive \/ CoastRelease \/ CoastTick

SpecCoast == InitCoast /\ [][NextCoast]_vars /\ WF_vars(CoastTick)

\* ========================================================================
\* Claims
\* ========================================================================

\* C1: every tick of Game.update with at least one traffic car runs to
\* completion, in the order player update, traffic update, collision check,
\* near-miss check, environment update, and raises no error.
C1_TickRunsToCompletion ==
  (last.ticks > 0 /\ Len(cars) >= 1) => (~last.threw /\ last.calls = UpdateOrder)

\* C2: from the paused state the next pause event resumes the game: isPaused
\* is false, gameState is 'playing', lastTime is the current time and the
\* game loop was entered again.
C2_PauseResumes ==
  (last.op = "pause" /\ last.wasPaused) =>
    /\ ~game.isPaused
    /\ game.gameState = "playing"
    /\ game.lastTime = now * Quantum
    /\ last.ticks > 0

\* C3: a handler that leaves the game paused has run no Game.update tick
\* and has scheduled no frame callback, whatever the interleaving of pause
\* events and waiting frame callbacks.
C3_NoTickWhilePaused ==
  game.isPaused => (last.ticks = 0 /\ last.scheduled = 0 /\ last.calls = <<>>)

\* a waiting frame callback ran while the game was paused
C3_FrameWhilePaused ==
  game.isPaused /\ last.op = "frame" /\ last.wasPaused

\* C4: after any sequence of update and onCollision calls from reset(),
\* speed is at least -20 and at most MAX_SPEED, or MAX_SPEED x NITRO_BOOST
\* while nitro is active.
C4_SpeedWithinLimits ==
  /\ player.speed >= -20 * SpeedScale
  /\ player.speed <= (IF player.isNitroActive
                      THEN (MAX_SPEED * NITRO_BOOST_X10 * SpeedScale) \div 10
                      ELSE MAX_SPEED * SpeedScale)

\* the car runs at the boosted limit with nitro active
C4_AtBoostedLimit ==
  /\ player.isNitroActive
  /\ player.speed = (MAX_SPEED * NITRO_BOOST_X10 * SpeedScale) \div 10

\* C5: after any sequence of update, onCollision, addDamage and reset calls
\* damage is within [0, 100] and nitroAmount within [0, 1].
C5_DamageAndNitroInRange ==
  /\ player.damage >= 0
  /\ player.damage <= 100 * DamageScale
  /\ player.nitroAmount >= 0
  /\ player.nitroAmount <= NitroScale

\* the car is wrecked and its nitro is used up
C5_WreckedAndEmpty ==
  player.damage = 100 * DamageScale /\ player.nitroAmount = 0

\* the road segments as the set of their spans' ends
SegmentCovers(i, z) ==
  road[i].zPosition <= z /\ z <= road[i].zPosition + roadSegmentLength * 1000

\* C6: the spans [zPosition, zPosition + 200] of the road segments cover
\* [player.z - 100, player.z + 2300] without a gap: both ends lie in a span
\* and every span that ends inside the window is continued by another one.
C6_RoadCoversWindow ==
  LET lo == playerZ - 100 * 1000
      hi == playerZ + (roadSegmentCount * roadSegmentLength - 100) * 1000
  IN /\ \E i \in 1..Len(road) : SegmentCovers(i, lo)
     /\ \E i \in 1..Len(road) : SegmentCovers(i, hi)
     /\ \A i \in 1..Len(road) :
          LET end == road[i].zPosition + roadSegmentLength * 1000
          IN (lo <= end /\ end < hi) =>
               \E j \in 1..Len(road) : road[j].zPosition <= end
                                        /\ end < road[j].zPosition + roadSegmentLength * 1000

\* C7: the set of road-segment positions modulo the tiled span (2400) is
\* the initial set in every reachable state.
C7_PositionsModuloSpan ==
  { road[i].zPosition % (roadSegmentCount * roadSegmentLength * 1000) : i \in 1..Len(road) }
    = { ((i - 1) * roadSegmentLength * 1000) : i \in 1..roadSegmentCount }

\* the player has moved forward by one tiled span and segments were recycled
C7_OneSpanAhead ==
  /\ playerZ = roadSegmentCount * roadSegmentLength * 1000
  /\ last.op = "tick"
  /\ \E i \in 1..Len(road) :
       road[i].zPosition >= roadSegmentCount * roadSegmentLength * 1000

\* the closed intervals [c1 - s1/2, c1 + s1/2] and [c2 - s2/2, c2 + s2/2]
\* have a point in common
IntervalsMeet(c1, s1, c2, s2) ==
  (IF c1 >= c2 THEN 2 * (c1 - c2) ELSE 2 * (c2 - c1)) <= s1 + s2

BoxesMeet(a, b) ==
  /\ IntervalsMeet(a.position.x, a.size.x, b.position.x, b.size.x)
  /\ IntervalsMeet(a.position.y, a.size.y, b.position.y, b.size.y)
  /\ IntervalsMeet(a.position.z, a.size.z, b.position.z, b.size.z)

PhysItems == phys.trafficColliders.items

PhysHasBoxes == phys.playerCollider # Null /\ phys.trafficColliders # Null

\* C8: checkCollisions returns one result per non-null traffic collider whose
\* box meets the player's box on all three axes, in input order, and none
\* for a collider that is separated on some axis.
C8_OneResultPerOverlap ==
  (phys.collisions # Null /\ PhysHasBoxes) =>
    /\ ~phys.collisions.threw
    /\ LET hits == SelectSeq(PhysItems,
                     LAMBDA t : t # Null /\ BoxesMeet(phys.playerCollider, t))
       IN /\ Len(phys.collisions.value) = Len(hits)
          /\ \A k \in 1..Len(hits) : phys.collisions.value[k].otherCollider = hits[k]

\* of two colliders the first is apart from the player, the second is hit
C8_SecondOfTwoHit ==
  /\ phys.collisions # Null /\ PhysHasBoxes
  /\ Len(PhysItems) = 2
  /\ PhysItems[1] # Null /\ PhysItems[2] # Null
  /\ ~BoxesMeet(phys.playerCollider, PhysItems[1])
  /\ Len(phys.collisions.value) = 1
  /\ phys.collisions.value[1].otherCollider = PhysItems[2]

\* twice the length of the part two intervals share (they meet)
SharedLength2(c1, s1, c2, s2) ==
  Min(Min(2 * s1, 2 * s2),
      s1 + s2 - (IF c1 >= c2 THEN 2 * (c1 - c2) ELSE 2 * (c2 - c1)))

MinOverlapDepth2(a, b) ==
  Min(SharedLength2(a.position.x, a.size.x, b.position.x, b.size.x),
      Min(SharedLength2(a.position.y, a.size.y, b.position.y, b.size.y),
          SharedLength2(a.position.z, a.size.z, b.position.z, b.size.z)))

LargestDimension(a) == Max(a.size.x, Max(a.size.y, a.size.z))

\* C9: every reported collision has intensity = minimum per-axis overlap
\* depth / largest dimension of the player's box, within [0, 1]; boxes of
\* equal size, non-zero on every axis, with coincident centres report a
\* collision with intensity in (0, 1].
C9_IntensityIsDepthOverSize ==
  (phys.collisions # Null /\ PhysHasBoxes) =>
    /\ \A k \in 1..Len(phys.collisions.value) :
         LET c == phys.collisions.value[k]
             depth2 == MinOverlapDepth2(phys.playerCollider, c.otherCollider)
             largest == LargestDimension(phys.playerCollider)
         IN /\ c.intensity.den > 0
            /\ c.intensity.num * 2 * largest = depth2 * c.intensity.den
            /\ 0 <= c.intensity.num /\ c.intensity.num <= c.intensity.den
    /\ \A i \in 1..Len(PhysItems) :
         ( /\ PhysItems[i] # Null
           /\ PhysItems[i].position = phys.playerCollider.position
           /\ PhysItems[i].size = phys.playerCollider.size
           /\ phys.playerCollider.size.x > 0
           /\ phys.playerCollider.size.y > 0
           /\ phys.playerCollider.size.z > 0 ) =>
           \E k \in 1..Len(phys.collisions.value) :
             /\ phys.collisions.value[k].otherCollider = PhysItems[i]
             /\ phys.collisions.value[k].intensity.num > 0
             /\ phys.collisions.value[k].intensity.num
                  <= phys.collisions.value[k].intensity.den

\* a box coincident with the player's equal box was checked, and its
\* intensity is below 1
C9_CoincidentEqualBoxes ==
  /\ phys.collisions # Null /\ PhysHasBoxes
  /\ Len(PhysItems) = 1
  /\ PhysItems[1] = Box(phys.playerCollider.position, phys.playerCollider.size)
  /\ phys.playerCollider.size.y > 0
  /\ Len(phys.collisions.value) = 1
  /\ phys.collisions.value[1].intensity.num > 0
  /\ phys.collisions.value[1].intensity.num < phys.collisions.value[1].intensity.den

\* four times the minimum safe distance of a pair
SafeDistance4(a, b) == (a.size.x + b.size.x) + (a.size.z + b.size.z)

\* 0.9 x minSafeDistance < d < minSafeDistance + threshold, in squares
InNearMissBand(a, b, threshold) ==
  LET d2 == distance3DSquared(a.position, b.position)
  IN /\ 81 * SafeDistance4(a, b) * SafeDistance4(a, b) < 1600 * d2
     /\ 16 * d2 < (SafeDistance4(a, b) + 4 * threshold) * (SafeDistance4(a, b) + 4 * threshold)

\* C10: checkNearMisses returns the number of non-null traffic colliders
\* whose centre distance d satisfies 0.9 x minSafeDistance < d <
\* minSafeDistance + threshold, each one counted on its own.
C10_CountsTheBand ==
  (phys.nearMisses # Null /\ PhysHasBoxes) =>
    /\ ~phys.nearMisses.threw
    /\ phys.nearMisses.value =
         Cardinality({ i \in 1..Len(PhysItems) :
                         /\ PhysItems[i] # Null
                         /\ InNearMissBand(phys.playerCollider, PhysItems[i],
                                           phys.threshold) })

\* along x, the first collider is at exactly minSafeDistance + threshold and
\* the second at 0.95 x minSafeDistance: one near miss
C10_BoundaryAndInside ==
  /\ phys.nearMisses # Null /\ PhysHasBoxes
  /\ phys.threshold > 0
  /\ Len(PhysItems) = 2
  /\ PhysItems[1] # Null /\ PhysItems[2] # Null
  /\ PhysItems[1].position.y = 0 /\ PhysItems[1].position.z = 0
  /\ 4 * PhysItems[1].position.x
       = SafeDistance4(phys.playerCollider, PhysItems[1]) + 4 * phys.threshold
  /\ PhysItems[2].position.y = 0 /\ PhysItems[2].position.z = 0
  /\ 80 * PhysItems[2].position.x = 19 * SafeDistance4(phys.playerCollider, PhysItems[2])
  /\ phys.nearMisses.value = 1

\* the traffic colliders that checkCollisions did not report
PhysNotReported ==
  { i \in 1..Len(PhysItems) :
      /\ PhysItems[i] # Null
      /\ \A k \in 1..Len(phys.collisions.value) :
           phys.collisions.value[k].otherCollider # PhysItems[i] }

\* C11: for one player box and one array of traffic colliders, no collider
\* is both reported by checkCollisions and counted by checkNearMisses: the
\* near misses are at most as many as the colliders that were not reported.
C11_NoDoubleCount ==
  ( /\ phys.collisions # Null /\ phys.nearMisses # Null /\ PhysHasBoxes
    /\ ~phys.collisions.threw /\ ~phys.nearMisses.threw ) =>
    phys.nearMisses.value <= Cardinality(PhysNotReported)

Axes == {"x", "y", "z"}

\* twice the penetration depth of two boxes on an axis
Penetration2(a, b, axis) ==
  a.size[axis] + b.size[axis] - 2 * Abs(a.position[axis] - b.position[axis])

PhysOther == PhysItems[phys.other]

\* C12: for two boxes that penetrate each other on all three axes,
\* getSeparationVector returns a vector with exactly one non-zero component,
\* on an axis of minimum penetration depth, pointing from the other box to
\* the player, of that axis's penetration depth.
C12_SeparationVector ==
  ( /\ phys.separation # Null
    /\ phys.playerCollider # Null /\ PhysOther # Null
    /\ \A axis \in Axes : Penetration2(phys.playerCollider, PhysOther, axis) > 0 ) =>
    /\ ~phys.separation.threw
    /\ \E axis \in Axes :
         /\ phys.separation.value[axis] # 0
         /\ \A o \in Axes \ {axis} : phys.separation.value[o] = 0
         /\ \A o \in Axes :
              Penetration2(phys.playerCollider, PhysOther, axis)
                <= Penetration2(phys.playerCollider, PhysOther, o)
         /\ Abs(phys.separation.value[axis])
              = Penetration2(phys.playerCollider, PhysOther, axis)
         /\ phys.separation.value[axis]
              * (phys.playerCollider.position[axis] - PhysOther.position[axis]) > 0

\* the gear of a speed: the 1-based index, capped at 6, of the highest
\* threshold of 0, 25, 50, 85, 130, 180, 250 the speed meets; a speed below
\* every threshold is in the lowest gear
GearOf(speed) ==
  IF speed < 25 * SpeedScale THEN 1
  ELSE IF speed < 50 * SpeedScale THEN 2
  ELSE IF speed < 85 * SpeedScale THEN 3
  ELSE IF speed < 130 * SpeedScale THEN 4
  ELSE IF speed < 180 * SpeedScale THEN 5
  ELSE 6

GearSpan == <<[lo |-> 0, hi |-> 25], [lo |-> 25, hi |-> 50], [lo |-> 50, hi |-> 85],
             [lo |-> 85, hi |-> 130], [lo |-> 130, hi |-> 180], [lo |-> 180, hi |-> 250]>>

\* the interpolation of speed within its gear's span into 1000..8000,
\* clamped to [800, 8500]
RpmOf(speed) ==
  LET span == GearSpan[GearOf(speed)]
  IN Max(800, Min(8500, 1000 + Trunc((speed - span.lo * SpeedScale) * 7000,
                                     (span.hi - span.lo) * SpeedScale)))

\* C13: after every PlayerCar.update, gear and rpm are functions of the
\* current speed: gear is the capped index of the highest threshold the
\* speed meets, within 1..6, and rpm is the clamped interpolation of speed
\* within that gear's span.
C13_GearAndRpmFollowSpeed ==
  last.op = "update" =>
    /\ player.gear \in 1..6
    /\ player.gear = GearOf(player.speed)
    /\ player.rpm = RpmOf(player.speed)

\* the car is ahead of the player of the last update by less than 30 units
\* and the player is faster
AheadAndSlower(car) ==
  /\ 0 < car.z - last.playerPosition.z
  /\ car.z - last.playerPosition.z < 30000
  /\ last.playerSpeed > car.speed * SpeedScale

\* x is within 0.8 x LANE_WIDTH of the player of the last update
LaterallyWithin(x) == 10 * Abs(x - last.playerPosition.x) < 8 * LANE_WIDTH * 1000

\* C14 as stated: after every TrafficCar.update, isBraking is true iff the
\* car is ahead of the player by less than 30 units, laterally within
\* 0.8 x LANE_WIDTH of the player, and the player is faster than the car.
C14_BrakingAfterUpdate ==
  last.op = "update" =>
    (cars[1].isBraking <=> (AheadAndSlower(cars[1]) /\ LaterallyWithin(cars[1].x)))

\* C14 amended: the lateral distance is the one of the x position the update
\* found, before its lane-change step moved the car sideways; z is the
\* position after the update's move.
C14_BrakingFromPositionFound ==
  [][ last'.op = "update" =>
        (cars'[1].isBraking <=>
           ( /\ 0 < cars'[1].z - last'.playerPosition.z
             /\ cars'[1].z - last'.playerPosition.z < 30000
             /\ last'.playerSpeed > cars'[1].speed * SpeedScale
             /\ 10 * Abs(cars[1].x - last'.playerPosition.x) < 8 * LANE_WIDTH * 1000 )) ]_vars

\* the car is in the middle of its lane, 20 units ahead of a player in that
\* lane who drives 80 against its 50: the brake light is on
C14_TwentyAheadOfFasterPlayer ==
  /\ last.op = "update"
  /\ cars[1].lane = cars[1].targetLane
  /\ cars[1].x = getLaneX(cars[1].lane)
  /\ LaterallyWithin(cars[1].x)
  /\ cars[1].z - last.playerPosition.z = 20000
  /\ last.playerSpeed = 80 * SpeedScale
  /\ cars[1].speed = 50
  /\ cars[1].isBraking

LaneChanging(car) == car.targetLane # car.lane

\* C15: while a lane change is under way, each update adds 2 x dt to
\* laneChangeProgress and leaves targetLane as it is; the first update that
\* brings the progress to 1 or more sets lane to targetLane and the progress
\* to 0; with updates of dt > 0 every started lane change completes.
C15_LaneChangeCompletes ==
  /\ [][ (last'.op = "update" /\ LaneChanging(cars[1])) =>
           /\ cars'[1].targetLane = cars[1].targetLane
           /\ IF cars[1].laneChangeProgress + 2 * last'.dt >= 1000
              THEN /\ cars'[1].lane = cars[1].targetLane
                   /\ cars'[1].laneChangeProgress = 0
              ELSE /\ cars'[1].lane = cars[1].lane
                   /\ cars'[1].laneChangeProgress
                        = cars[1].laneChangeProgress + 2 * last'.dt ]_vars
  /\ (LaneChanging(cars[1]) ~> ~LaneChanging(cars[1]))

\* an update of a quarter second has completed a lane change: the car is in
\* the middle of its new lane
C15_CompletedByQuarterSeconds ==
  /\ last.op = "update" /\ last.dt = 250 /\ last.changedLane
  /\ cars[1].lane = cars[1].targetLane
  /\ cars[1].laneChangeProgress = 0
  /\ cars[1].x = getLaneX(cars[1].lane)

\* C16: lane and targetLane of a traffic car are in [0, LANE_COUNT) after
\* the spawn and after every update and lane-change attempt.
C16_LanesInRange ==
  /\ cars[1].lane \in 0..(LANE_COUNT - 1)
  /\ cars[1].targetLane \in 0..(LANE_COUNT - 1)

\* a car in an outer lane has drawn a lane-change attempt and kept its lane
C16_AttemptAtTheEdge ==
  /\ last.op = "update" /\ last.tried
  /\ cars[1].lane \in {0, LANE_COUNT - 1}
  /\ cars[1].targetLane = cars[1].lane

\* C17: after init, after reset and after every TrafficManager.update there
\* are exactly TRAFFIC.COUNT cars, and none of them is more than
\* DESPAWN_DISTANCE behind the player.
C17_CountAndDespawn ==
  /\ Len(cars) = TRAFFIC_COUNT
  /\ \A i \in 1..Len(cars) : ~(playerZ - cars[i].z > DESPAWN_DISTANCE * 1000)

\* an update has removed a car and its refill loop has put one ahead
C17_RemovedAndRefilled ==
  /\ last.op = "update" /\ last.spawned >= 1
  /\ Len(cars) = TRAFFIC_COUNT
  /\ cars[TRAFFIC_COUNT].z >= playerZ + SPAWN_DISTANCE * 1000

\* C18: every car the update has spawned through spawnCarAhead has no car
\* that existed when it was spawned in its lane within 15 units along z.
C18_SpawnedWithSpacing ==
  last.op = "update" =>
    \A j \in (TRAFFIC_COUNT - last.spawned + 1)..Len(cars) :
      \A i \in 1..(j - 1) :
        ~(cars[i].lane = cars[j].lane /\ Abs(cars[i].z - cars[j].z) < 15000)

\* C19: every onCollision call leaves damage increased by an amount
\* proportional to the impact speed (a fifth of 0.3 x |speed|, up to the
\* limit of 100), never decreased, and multiplies speed by
\* 1 - COLLISION_BOUNCE.
C19_CollisionDamagesAndSlows ==
  [][ last'.op = "onCollision" =>
        /\ player'.damage >= player.damage
        /\ player'.damage
             = Min(100 * DamageScale,
                   player.damage + Trunc(Abs(player.speed) * 3 * 2 * DamageScale,
                                         100 * SpeedScale))
        /\ player'.speed = Trunc(player.speed * (100 - COLLISION_BOUNCE_PCT), 100) ]_vars

\* C20: from every reachable state of the car, reset() gives the fixed
\* starting state (position START_POSITION, heading 0, speed 0, rpm 800,
\* gear 1, damage 0, nitroAmount 1, isDrifting, isNitroActive and isBraking
\* false, driftAngle 0), so a second reset() changes nothing, and the car
\* is in that state after every reset.
C20_ResetGivesStartState ==
  /\ reset(player) =
       [ speed |-> 0, rpm |-> 800, gear |-> 1, damage |-> 0,
         nitroAmount |-> NitroScale, isDrifting |-> FALSE,
         isNitroActive |-> FALSE, isBraking |-> FALSE,
         position |-> Vec3(0, 500, 0), heading |-> 0, driftAngle |-> 0 ]
  /\ reset(reset(player)) = reset(player)
  /\ last.op = "reset" => player = reset(player) /\ playerZ = 0

\* a reset has acted on a car with every field away from its starting value
C20_ResetOfCarChangedThroughout ==
  /\ last.op = "reset"
  /\ last.changed = DOMAIN PlayerStart
  /\ player = PlayerStart

\* the entries of the traffic array that are not null, in their order
PhysNonNullItems == SelectSeq(PhysItems, LAMBDA t : t # Null)

\* C21: with a null player collider, a null traffic array or an empty one,
\* checkCollisions returns an empty list and checkNearMisses returns 0 and
\* neither raises an error; null entries of the array are skipped: the
\* results are those of the array without its null entries.
C21_NullAndEmptyInputs ==
  /\ ( /\ phys.collisions # Null
       /\ \/ phys.playerCollider = Null
          \/ phys.trafficColliders = Null
          \/ Len(PhysItems) = 0 )
       => phys.collisions = Returned(<<>>)
  /\ ( /\ phys.nearMisses # Null
       /\ \/ phys.playerCollider = Null
          \/ phys.trafficColliders = Null
          \/ Len(PhysItems) = 0 )
       => phys.nearMisses = Returned(0)
  /\ (phys.collisions # Null /\ phys.trafficColliders # Null)
       => /\ ~phys.collisions.threw
          /\ phys.collisions
               = checkCollisions(phys.playerCollider, Array(PhysNonNullItems))
  /\ (phys.nearMisses # Null /\ phys.trafficColliders # Null)
       => /\ ~phys.nearMisses.threw
          /\ phys.nearMisses
               = checkNearMisses(phys.playerCollider, Array(PhysNonNullItems),
                                 phys.threshold)

\* both queries have answered for an array whose first entry is null and
\* whose second entry the player's box hits
C21_NullBeforeAHit ==
  /\ phys.collisions # Null /\ phys.nearMisses # Null
  /\ phys.playerCollider # Null /\ phys.trafficColliders # Null
  /\ Len(PhysItems) = 2
  /\ PhysItems[1] = Null /\ PhysItems[2] # Null
  /\ Len(phys.collisions.value) = 1
  /\ phys.collisions.value[1].otherCollider = PhysItems[2]
  /\ phys.nearMisses.value = 1

\* both queries have answered for a null player collider
C21_NullPlayerAnswered ==
  /\ phys.collisions = Returned(<<>>) /\ phys.nearMisses = Returned(0)
  /\ phys.playerCollider = Null
  /\ phys.trafficColliders # Null /\ Len(PhysItems) = 2

\* C22: at any time at most one gameLoop call is waiting in the
\* display-refresh queue, whatever the order of startGame, pause events,
\* game over, restart and frame callbacks.
C22_OneFramePending == raf <= 1

\* C23: a tick ends with damage >= 100 exactly when its collision handling
\* has entered gameOver, which leaves gameState 'gameover' and isRunning
\* false; a state with gameState 'playing' has damage < 100; and while
\* isRunning is false no handler other than startGame runs Game.update.
C23_GameOverAtFullDamage ==
  /\ [] /\ (last.ticks > 0 /\ player.damage >= 100 * DamageScale)
             => (game.gameState = "gameover" /\ ~game.isRunning)
        /\ game.gameState = "gameover"
             => (~game.isRunning /\ player.damage >= 100 * DamageScale)
        /\ game.gameState = "playing" => player.damage < 100 * DamageScale
  /\ [][ (~game.isRunning /\ last'.op \notin {"startGame", "restart"})
           => (last'.ticks = 0 /\ player' = player) ]_vars

\* after the tick that ended the game the waiting frame callback has run
\* and has not entered Game.update
C23_FrameAfterGameOver ==
  /\ game.gameState = "gameover"
  /\ player.damage >= 100 * DamageScale
  /\ last.op = "frame"
  /\ last.ticks = 0

\* the world z of a segment's road mesh: the group's position plus the
\* mesh's position inside the group
MeshWorldZ(segment) == segment.groupZ + segment.meshZ

\* C24: every recycle of a road segment moves it forward by the tiled
\* length (segmentLength x segmentCount = 2400), in zPosition and in the
\* world position of its meshes alike, and makes it the leading segment.
C24_RecycleMovesByTiledLength ==
  [][ \A i \in 1..Len(road) :
        road'[i].zPosition # road[i].zPosition =>
          /\ road'[i].zPosition
               = road[i].zPosition + roadSegmentCount * roadSegmentLength * 1000
          /\ MeshWorldZ(road'[i])
               = MeshWorldZ(road[i]) + roadSegmentCount * roadSegmentLength * 1000
          /\ \A j \in 1..Len(road) : road'[j].zPosition <= road'[i].zPosition ]_vars

\* C25: a building or a street lamp that is relocated moves forward by the
\* tiled span of its category, count x spacing: 60 x 25 = 1500 for the
\* buildings and 40 x 30 = 1200 for the lamps.
C25_RelocatedByCategorySpan ==
  [][ /\ \A k \in 1..Len(buildings) :
           buildings'[k] # buildings[k] =>
             buildings'[k] = buildings[k] + BUILDING_COUNT * buildingSpacing * 1000
      /\ \A k \in 1..Len(streetLamps) :
           streetLamps'[k] # streetLamps[k] =>
             streetLamps'[k] = streetLamps[k] + lampCount * lampSpacing * 1000 ]_vars

\* the part of C25 about the street lamps alone
StreetLampsRelocatedBySpan ==
  [][ \A k \in 1..Len(streetLamps) :
        streetLamps'[k] # streetLamps[k] =>
          streetLamps'[k] = streetLamps[k] + lampCount * lampSpacing * 1000 ]_vars

\* C26 as stated: in every state after PlayerCar.update, isNitroActive
\* implies nitroAmount > 0 and speed > 10, and isNitroActive is false when
\* the nitro input was not held in that update.
C26_NitroActiveAfterUpdate ==
  last.op = "update" =>
    /\ player.isNitroActive => (player.nitroAmount > 0 /\ player.speed > 10 * SpeedScale)
    /\ ~last.in.nitro => ~player.isNitroActive

\* C26, amended: after every PlayerCar.update isNitroActive is true exactly
\* when in that update the nitro input was held and the update found
\* nitroAmount > 0 and speed > 10 (the values before the update).
C26_NitroActiveFromStateFound ==
  [][ last'.op = "update" =>
        ( player'.isNitroActive <=>
            (last'.in.nitro /\ player.nitroAmount > 0 /\ player.speed > 10 * SpeedScale) ) ]_vars

\* an update with nitro held has used up the last of the nitro
C26_ActiveOnTheLastNitro ==
  /\ last.op = "update"
  /\ last.in.nitro
  /\ player.isNitroActive
  /\ player.nitroAmount = 0

C28_BrakeNeverReverses ==
  [][ ( /\ last'.op = "update"
        /\ last'.in.brake /\ ~last'.in.forward /\ ~last'.in.backward
        /\ player.speed >= 0 )
      => player'.speed >= 0 ]_vars

\* C29: after every TrafficCar.update laneChangeProgress is in [0, 1),
\* targetLane is lane or a neighbour of it, and a car with lane =
\* targetLane has laneChangeProgress 0 and stands on the centre of its lane.
C29_LaneChangeState ==
  \A i \in 1..Len(cars) :
    /\ 0 <= cars[i].laneChangeProgress /\ cars[i].laneChangeProgress < 1000
    /\ Abs(cars[i].targetLane - cars[i].lane) <= 1
    /\ cars[i].lane = cars[i].targetLane =>
         /\ cars[i].laneChangeProgress = 0
         /\ cars[i].x = getLaneX(cars[i].lane)

\* the update that has just completed a lane change
C29_JustCompleted ==
  /\ last.op = "update" /\ last.changedLane
  /\ Len(cars) = 1
  /\ cars[1].lane = cars[1].targetLane
  /\ cars[1].x = getLaneX(cars[1].lane)

\* C30: each action flag reported by getState is true exactly when at
\* least one key bound to the action is held.
C30_FlagIffBoundKeyHeld ==
  /\ getState(input).forward = (KEYS.FORWARD \cap input.held # {})
  /\ getState(input).backward = (KEYS.BACKWARD \cap input.held # {})
  /\ getState(input).left = (KEYS.LEFT \cap input.held # {})
  /\ getState(input).right = (KEYS.RIGHT \cap input.held # {})
  /\ getState(input).brake = (KEYS.BRAKE \cap input.held # {})
  /\ getState(input).nitro = (KEYS.NITRO \cap input.held # {})

====
